---- MODULE Spec2Model ----
(***************************************************************************)
(* A model of the email-automation scripts: the mail-merge driver          *)
(* processEmails (src/Code.js) with its QR helpers, the Czech IBAN         *)
(* conversion convertToIBAN (src/unnamed/part_000), the payment payload    *)
(* generatePaymentQrData and the template engine fillInTemplateFromObject_ *)
(* (src/Code.js), and the two versions of the bank-transaction log writer  *)
(* writeTransactionsToSheet (src/FioParser.js).                            *)
(*                                                                         *)
(* Sheet cells are records [k, n, s]: k is the kind of value read by       *)
(* getValues() ("blank" is the empty string "", "num" a number, "str" a    *)
(* non-empty string, "sent"/"failed" a status written by processEmails),   *)
(* n the number (or the run that wrote the status: its timestamp), s the   *)
(* string (or the error message).                                          *)
(* Strings that the code takes apart (account numbers, IBANs, payloads,    *)
(* templates, transaction notes) are sequences of one-character strings.   *)
(***************************************************************************)
EXTENDS Integers, Sequences, FiniteSets, TLC

\* ------------------------------------------------------------------ bounds
MaxRows == 2      \* data rows of the "realizace" sheet
MaxRuns == 2      \* invocations of processEmails in one behaviour
MaxChars == 2     \* length of the generated account-number strings
MaxPieces == 2    \* pieces a generated template subject is made of
MaxFetches == 2   \* invocations of writeTransactionsToSheet in one behaviour
MaxBatch == 2     \* transactions in one fetched response
MaxNotePieces == 3 \* pieces a generated transaction note is made of
MaxDigits == 3 \* length of the digit strings given to modulo97

\* ------------------------------------------------------------- cell values
Blank == [k |-> "blank", n |-> 0, s |-> ""]
Num(x) == [k |-> "num", n |-> x, s |-> ""]
Str(t) == [k |-> "str", n |-> 0, s |-> t]
\* new Date().toISOString() written by setValue: the run stands for the time
SentAt(r) == [k |-> "sent", n |-> r, s |-> ""]
\* `${error.message} at ${new Date().toISOString()}`
FailedAt(msg, r) == [k |-> "failed", n |-> r, s |-> msg]

\* Array.prototype.indexOf, 1-based; 0 stands for JavaScript's -1
RECURSIVE IndexFrom(_, _, _)
IndexFrom(seq, x, i) ==
  IF i > Len(seq) THEN 0
  ELSE IF seq[i] = x THEN i
  ELSE IndexFrom(seq, x, i + 1)

IndexOf(seq, x) == IndexFrom(seq, x, 1)

\* ------------------------------------------------------------ convertToIBAN
\* JavaScript argument values: t is "undefined", "null", "string" or
\* "number"; d is String(value) as a sequence of characters
Undefined == [t |-> "undefined", d |-> <<>>]
Null == [t |-> "null", d |-> <<>>]
JsString(chars) == [t |-> "string", d |-> chars]
JsNumber(chars) == [t |-> "number", d |-> chars]

Digits == <<"0", "1", "2", "3", "4", "5", "6", "7", "8", "9">>

IsDigit(ch) == IndexOf(Digits, ch) # 0

\* parseInt of one digit character
parseInt(ch) == IndexOf(Digits, ch) - 1

\* str.replace(/\D/g, "")
StripNonDigits(str) == SelectSeq(str, IsDigit)

\* str.padStart(n, ch)
RECURSIVE padStart(_, _, _)
padStart(str0, n, ch) ==
  IF Len(str0) >= n THEN str0 ELSE padStart(<<ch>> \o str0, n, ch)

\* Number.prototype.toString of a non-negative integer
RECURSIVE NumToString(_)
NumToString(n) ==
  IF n < 10 THEN <<Digits[n + 1]>>
  ELSE NumToString(n \div 10) \o <<Digits[(n % 10) + 1]>>

\* the for loop of modulo97 without the reduction in its body
RECURSIVE Modulo97Unreduced(_, _, _)
Modulo97Unreduced(numStr, i, remainder) ==
  IF i > Len(numStr) THEN remainder
  ELSE Modulo97Unreduced(numStr, i + 1, remainder * 10 + parseInt(numStr[i]))

\* the for loop of modulo97 from position i with the remainder so far
RECURSIVE Modulo97From(_, _, _)
Modulo97From(numStr, i, remainder) ==
  IF i > Len(numStr) THEN remainder
  ELSE Modulo97From(numStr, i + 1, (remainder * 10 + parseInt(numStr[i])) % 97)

modulo97(numStr) == Modulo97From(numStr, 1, 0)

\* iban.match(/.{1,4}/g).join(" ")
RECURSIVE formatIBAN(_)
formatIBAN(iban) ==
  IF Len(iban) <= 4 THEN iban
  ELSE SubSeq(iban, 1, 4) \o <<" ">> \o formatIBAN(SubSeq(iban, 5, Len(iban)))

\* the numeric form of the country code "CZ" that the code appends
countryCodeNum == <<"3", "2", "3", "5">>

countryCode == <<"C", "Z">>

\* convertToIBAN(accountNumber, bankCode, prefix = ""): the formatted IBAN,
\* or the error thrown
convertToIBAN(accountNumber, bankCode, prefix) ==
  IF accountNumber.t \in {"undefined", "null"} \/ bankCode.t \in {"undefined", "null"}
  THEN [threw |-> TRUE,
        message |-> "Account number and bank code are required parameters",
        value |-> <<>>]
  ELSE LET acct == padStart(StripNonDigits(accountNumber.d), 10, "0")
           pre == padStart(StripNonDigits(prefix.d), 6, "0")
           bank == padStart(StripNonDigits(bankCode.d), 4, "0")
           bban == bank \o pre \o acct
           numericRepresentation == bban \o countryCodeNum \o <<"0", "0">>
           checksum == padStart(NumToString(98 - (modulo97(numericRepresentation) % 97)),
                                2, "0")
       IN [threw |-> FALSE, message |-> "",
           value |-> formatIBAN(countryCode \o checksum \o bban)]

ExampleAccount == <<"1", "2", "3", "4", "5", "6", "7", "8", "9">>

\* ---------------------------------------------------- generatePaymentQrData
\* the JavaScript truth value of an argument: undefined, null, "" and the
\* number 0 are false
JsTruthy(v) ==
  /\ v.t \notin {"undefined", "null"}
  /\ v.d # <<>>
  /\ ~(v.t = "number" /\ v.d = <<"0">>)

\* str.padEnd(n, ch): the fractional digits as toFixed prints them
RECURSIVE padEnd(_, _, _)
padEnd(str0, n, ch) ==
  IF Len(str0) >= n THEN str0 ELSE padEnd(str0 \o <<ch>>, n, ch)

\* Number.prototype.toFixed(2) on the decimal form of a number that has at
\* most two fractional digits
toFixed2(d) ==
  LET dot == IndexOf(d, ".")
  IN IF dot = 0 THEN d \o <<".", "0", "0">>
     ELSE SubSeq(d, 1, dot) \o padEnd(SubSeq(d, dot + 1, Len(d)), 2, "0")

SpdHeader == <<"S", "P", "D", "*", "1", ".", "0">>
AccTag == <<"*", "A", "C", "C", ":">>
AmTag == <<"*", "A", "M", ":">>
CcTag == <<"*", "C", "C", ":">>
VsTag == <<"*", "V", "S", ":">>
MsgTag == <<"*", "M", "S", "G", ":">>

\* generatePaymentQrData with the optional fields tested for the empty
\* string instead of for truth
generatePaymentQrDataNonEmpty(accountNumber, bankCode, currency, amount, variableSymbol, message) ==
  LET iban == convertToIBAN(accountNumber, bankCode, JsString(<<>>))
      present(v) == v.t \notin {"undefined", "null"} /\ v.d # <<>>
  IN IF iban.threw THEN iban
     ELSE IF amount.t # "number"
     THEN [threw |-> TRUE, message |-> "amount.toFixed is not a function",
           value |-> <<>>]
     ELSE [threw |-> FALSE, message |-> "",
           value |-> SpdHeader \o AccTag \o iban.value
                       \o AmTag \o toFixed2(amount.d) \o CcTag \o currency.d
                       \o (IF present(variableSymbol)
                           THEN VsTag \o variableSymbol.d ELSE <<>>)
                       \o (IF present(message)
                           THEN MsgTag \o message.d ELSE <<>>)]

\* generatePaymentQrData(accountNumber, bankCode, currency, amount,
\* variableSymbol, message): the data string, or the error thrown
generatePaymentQrData(accountNumber, bankCode, currency, amount, variableSymbol, message) ==
  LET iban == convertToIBAN(accountNumber, bankCode, JsString(<<>>))
  IN IF iban.threw THEN iban
     ELSE IF amount.t # "number"
     THEN [threw |-> TRUE, message |-> "amount.toFixed is not a function",
           value |-> <<>>]
     ELSE [threw |-> FALSE, message |-> "",
           value |-> SpdHeader \o AccTag \o iban.value
                       \o AmTag \o toFixed2(amount.d) \o CcTag \o currency.d
                       \o (IF JsTruthy(variableSymbol)
                           THEN VsTag \o variableSymbol.d ELSE <<>>)
                       \o (IF JsTruthy(message)
                           THEN MsgTag \o message.d ELSE <<>>)]

\* ------------------------------------------------------------ sheet inputs
\* SHEETS_DATA.realization[0]
realizationHeaders == <<"Recipient", "CondA", "SentA", "CondB", "SentB">>

\* MAIL_CONFIG.RECIPIENT_COL
RECIPIENT_COL == "Recipient"

\* a status left in the sheet by an earlier session
Prior == Str("2025-01-01T00:00:00.000Z")

\* a recipient whose text holds a control character that escapeData_ leaves
\* as it is (a vertical tab): JSON.parse of the filled template rejects it
BadRecipient == Str("bad")

\* the data rows a behaviour starts from
RowKinds ==
  { <<Str("a@x"), Num(1), Blank, Num(1), Blank>>,
    <<Str("b@x"), Num(1), Prior, Num(2), Prior>>,
    <<Str("c@x"), Num(2), Blank, Num(0), Blank>>,
    <<Str("d@x"), Num(0), Prior, Num(1), Prior>>,
    <<Str("e@x"), Num(2), Prior, Num(0), Prior>>,
    <<Str("f@x"), Num(0), Blank, Num(2), Blank>>,
    <<BadRecipient, Str("1"), Blank, Num(1), Blank>> }

\* rows of the plan sheet, as parsePlanData returns them
Rule(t, c, s) == [emailTopic |-> t, conditionColumn |-> c, sentColumn |-> s]

\* rows of the QRCodes sheet, as SHEETS_DATA.qrCodes holds them
\* the variable-symbol fields are cells; the fields that go to
\* generatePaymentQrData are JavaScript values
QrCode(name, acct, vs, vsCol) ==
  [imageName |-> name, accountNumber |-> acct,
   bankCode |-> JsString(<<"0", "8", "0", "0">>),
   currency |-> JsString(<<"C", "Z", "K">>),
   amount |-> JsNumber(<<"1", "0", "0">>),
   variableSymbol |-> vs, variableSymbolColumn |-> vsCol,
   message |-> JsString(<<>>)]

QrGood == QrCode("qr1", JsString(ExampleAccount), Str("2024"), Blank)
QrBoth == QrCode("qr2", JsString(ExampleAccount), Str("2024"), Str("Recipient"))
QrColumn == QrCode("qr3", JsString(ExampleAccount), Blank, Str("Recipient"))
QrNoColumn == QrCode("qr4", JsString(ExampleAccount), Blank, Str("Nope"))
\* a QRCodes sheet without the AccountNumber header: row[-1] is undefined
QrNoAccount == QrCode("qr5", Undefined, Str("2024"), Blank)

NoQr == [t \in {"T1", "T2"} |-> <<>>]

\* plan sheet, Gmail drafts and QRCodes sheet of one installation
Scenario(p, d, q) == [plan |-> p, drafts |-> d, qrCodes |-> q]

Scenarios ==
  { Scenario(<<Rule("T1", "CondA", "SentA"), Rule("T2", "CondB", "SentB")>>,
             {"T1", "T2"}, NoQr),
    Scenario(<<Rule("T1", "CondA", "SentA"), Rule("T2", "CondB", "SentB")>>,
             {"T2"}, [NoQr EXCEPT !["T2"] = <<QrGood>>]),
    Scenario(<<Rule("T1", "CondA", "SentA"), Rule("T2", "CondB", "SentA")>>,
             {"T1", "T2"}, [NoQr EXCEPT !["T2"] = <<QrGood, QrBoth>>]),
    Scenario(<<Rule("T1", "CondA", "SentA"), Rule("T2", "Nope", "SentB")>>,
             {"T1", "T2"}, NoQr),
    Scenario(<<Rule("T1", "CondA", "Nope"), Rule("T2", "CondB", "SentB")>>,
             {"T1", "T2"}, NoQr),
    Scenario(<<Rule("T1", "CondA", "SentA"), Rule("T2", "CondB", "SentB")>>,
             {"T1", "T2"},
             [NoQr EXCEPT !["T1"] = <<QrBoth>>, !["T2"] = <<QrColumn>>]),
    Scenario(<<Rule("T1", "CondA", "SentA"), Rule("T2", "CondB", "SentB")>>,
             {"T1", "T2"}, [NoQr EXCEPT !["T2"] = <<QrNoColumn, QrGood>>]),
    Scenario(<<Rule("T1", "CondA", "SentA"), Rule("T2", "CondB", "SentB")>>,
             {"T1", "T2"}, [NoQr EXCEPT !["T2"] = <<QrNoAccount>>]) }

\* ------------------------------------------------------------------- state
VARIABLES
  scenario,         \* plan sheet, drafts and QRCodes sheet (fixed in a behaviour)
  sheet,            \* data rows of the realization sheet, as stored
  realizationData,  \* SHEETS_DATA.realization.slice(1): the rows read at load
  run,              \* invocations of processEmails started so far
  pc,               \* position of processEmails
  recipientIndex,   \* row of the pair in progress (1-based)
  planIndex,        \* rule of the pair in progress (1-based)
  errorMessage,     \* error.message of the exception being handled
  inlineImages,     \* image names registered for the message in progress
  fetched,          \* outcomes of the render fetches of the latest pair
  calls,            \* what this run did for each (row, rule) pair
  prevCalls,        \* what the run before did for each pair
  ibanArgs,         \* arguments of a convertToIBAN call
  ibanResult,       \* its outcome
  qrArgs,           \* arguments of a generatePaymentQrData call
  qrResult,         \* its outcome
  template,         \* the template of a fillInTemplateFromObject_ call
  templateData,     \* its data mapping
  msgObj,           \* its outcome
  variant,          \* the version of writeTransactionsToSheet in use
  fioSheet,         \* the transaction log sheet: whether it exists, its rows
  fioRuns,          \* invocations of writeTransactionsToSheet so far
  transactionsData, \* the response fetched by the last invocation
  existingData,     \* the rows the last invocation found in the sheet
  noteArg,          \* the argument of a parseTransactionNote call
  noteResult,       \* its outcome
  mod97Str,         \* the argument numStr of a modulo97 call
  mod97Pos,         \* the digits of it that the for loop has consumed
  mod97Rem,         \* remainder of the loop
  mappingCall,      \* the table, the pair and the QR codes of a data mapping
  mappingResult     \* the data mapping handed to fillInTemplateFromObject_

vars ==
  <<scenario, sheet, realizationData, run, pc, recipientIndex, planIndex,
    errorMessage, inlineImages, fetched, calls, prevCalls, ibanArgs, ibanResult,
    qrArgs, qrResult, template, templateData, msgObj, variant, fioSheet,
    fioRuns, transactionsData, existingData, noteArg, noteResult, mod97Str,
    mod97Pos, mod97Rem, mappingCall, mappingResult>>

mergeVars ==
  <<scenario, sheet, realizationData, run, pc, recipientIndex, planIndex,
    errorMessage, inlineImages, fetched, calls, prevCalls>>

ibanVars == <<ibanArgs, ibanResult>>

qrVars == <<qrArgs, qrResult>>

templateVars == <<template, templateData, msgObj>>

fioVars == <<variant, fioSheet, fioRuns, transactionsData, existingData>>

\* the state of the functions that processEmails does not touch
noteVars == <<noteArg, noteResult>>

modVars == <<mod97Str, mod97Pos, mod97Rem>>

mappingVars == <<mappingCall, mappingResult>>

pureVars ==
  <<ibanVars, qrVars, templateVars, fioVars, noteVars, modVars, mappingVars>>

planData == scenario.plan

Pairs == (1 .. Len(sheet)) \X (1 .. Len(planData))

\* nothing done yet for a pair
NoCalls ==
  [entered |-> FALSE, fetch |-> 0, render |-> 0, send |-> 0, sendOk |-> FALSE,
   failed |-> "", wrote |-> <<>>, stages |-> <<>>, resolved |-> <<>>]

plan == planData[planIndex]

\* the row of the recipient as the sheet holds it now
recipientRowLive == sheet[recipientIndex]

recipientRow == realizationData[recipientIndex]

conditionColIdx == IndexOf(realizationHeaders, plan.conditionColumn)

sentColIdx == IndexOf(realizationHeaders, plan.sentColumn)

recipientIdx == IndexOf(realizationHeaders, RECIPIENT_COL)

pair == <<recipientIndex, planIndex>>

\* ----------------------------------------------------------- QR resolution
\* JavaScript truthiness of a cell value
Truthy(c) == c.k \in {"str", "sent", "failed"} \/ (c.k = "num" /\ c.n # 0)

Threw(msg) == [threw |-> TRUE, message |-> msg, value |-> Blank]

Returned(v) == [threw |-> FALSE, message |-> "", value |-> v]

\* consolidateQrCodeData without its test of the two variable-symbol fields
consolidateQrCodeDataUnchecked(qrCodeObj, data, headers) ==
  IF ~Truthy(qrCodeObj.variableSymbol) /\ Truthy(qrCodeObj.variableSymbolColumn)
  THEN LET columnIdx == IndexOf(headers, qrCodeObj.variableSymbolColumn.s)
       IN IF columnIdx = 0
          THEN Threw("Column " \o qrCodeObj.variableSymbolColumn.s
                     \o " not found in realization data headers.")
          ELSE Returned(data[1][columnIdx])
  ELSE Returned(qrCodeObj.variableSymbol)

\* consolidateQrCodeData taking an absent column for an empty symbol
consolidateQrCodeDataAbsentColumn(qrCodeObj, data, headers) ==
  IF Truthy(qrCodeObj.variableSymbol) /\ Truthy(qrCodeObj.variableSymbolColumn)
  THEN Threw("Only one of variableSymbol or variableSymbolColumn should be non-empty.")
  ELSE IF ~Truthy(qrCodeObj.variableSymbol) /\ Truthy(qrCodeObj.variableSymbolColumn)
  THEN LET columnIdx == IndexOf(headers, qrCodeObj.variableSymbolColumn.s)
       IN IF columnIdx = 0 THEN Returned(Blank)
          ELSE Returned(data[1][columnIdx])
  ELSE Returned(qrCodeObj.variableSymbol)

\* consolidateQrCodeData reading the column in the row of the recipient
consolidateQrCodeDataOwnRow(qrCodeObj, data, headers) ==
  IF Truthy(qrCodeObj.variableSymbol) /\ Truthy(qrCodeObj.variableSymbolColumn)
  THEN Threw("Only one of variableSymbol or variableSymbolColumn should be non-empty.")
  ELSE IF ~Truthy(qrCodeObj.variableSymbol) /\ Truthy(qrCodeObj.variableSymbolColumn)
  THEN LET columnIdx == IndexOf(headers, qrCodeObj.variableSymbolColumn.s)
       IN IF columnIdx = 0
          THEN Threw("Column " \o qrCodeObj.variableSymbolColumn.s
                     \o " not found in realization data headers.")
          ELSE Returned(data[recipientIndex][columnIdx])
  ELSE Returned(qrCodeObj.variableSymbol)

\* consolidateQrCodeData: the resolved variable symbol, or the error thrown
consolidateQrCodeData(qrCodeObj, data, headers) ==
  IF Truthy(qrCodeObj.variableSymbol) /\ Truthy(qrCodeObj.variableSymbolColumn)
  THEN Threw("Only one of variableSymbol or variableSymbolColumn should be non-empty.")
  ELSE IF ~Truthy(qrCodeObj.variableSymbol) /\ Truthy(qrCodeObj.variableSymbolColumn)
  THEN LET columnIdx == IndexOf(headers, qrCodeObj.variableSymbolColumn.s)
       IN IF columnIdx = 0
          THEN Threw("Column " \o qrCodeObj.variableSymbolColumn.s
                     \o " not found in realization data headers.")
          ELSE Returned(data[1][columnIdx])
  ELSE Returned(qrCodeObj.variableSymbol)

\* SHEETS_DATA.qrCodes[plan.emailTopic], empty when the topic has none
qrCodesOf(topic) == scenario.qrCodes[topic]

\* the image names that the filled HTML body refers to as cid:<imageName>:
\* the QR stage maps every image name of the topic to an img tag, and the
\* draft of a topic holds the token {{imageName}} of each of its QR codes
CidReferences(topic) ==
  {qrCodesOf(topic)[n].imageName : n \in DOMAIN qrCodesOf(topic)}

\* the forEach of the QR stage: the first error consolidateQrCodeData throws
RECURSIVE FirstQrError(_, _)
FirstQrError(specs, n) ==
  IF n > Len(specs) THEN Returned(Blank)
  ELSE LET c == consolidateQrCodeData(specs[n], realizationData, realizationHeaders)
       IN IF c.threw THEN c ELSE FirstQrError(specs, n + 1)

\* what UrlFetchApp.fetch can do in generateQrCodeBlob
RenderOutcomes == {"200", "500", "exception"}

\* the value of a cell as getValues hands it to the script; the text of a
\* string cell is kept in one piece
CellValue(c) ==
  IF c.k = "blank" THEN JsString(<<>>)
  ELSE IF c.k = "num" THEN JsNumber(NumToString(c.n))
  ELSE JsString(<<c.s>>)

\* what a call of generateQrCodeBlob did: whether it threw, whether the
\* fetch was made, whether a blob came back (null otherwise)
BlobResult(threw, message, fetch, blob) ==
  [threw |-> threw, message |-> message, fetch |-> fetch, blob |-> blob]

\* generateQrCodeBlob without its try and its test of the response code: a
\* fetch that fails leaves the function as an error
generateQrCodeBlobRaising(qrCodeObj, vs, outcome) ==
  LET dataString == generatePaymentQrData(qrCodeObj.accountNumber, qrCodeObj.bankCode, qrCodeObj.currency, qrCodeObj.amount, CellValue(vs), qrCodeObj.message)
  IN IF dataString.threw
     THEN BlobResult(TRUE, dataString.message, FALSE, FALSE)
     ELSE BlobResult(outcome # "200", "Failed to fetch QR code", TRUE, outcome = "200")

\* generateQrCodeBlob without its try: the error of the fetch leaves the
\* function, a response with another code than 200 still gives null
generateQrCodeBlobUncaught(qrCodeObj, vs, outcome) ==
  LET dataString == generatePaymentQrData(qrCodeObj.accountNumber, qrCodeObj.bankCode, qrCodeObj.currency, qrCodeObj.amount, CellValue(vs), qrCodeObj.message)
  IN IF dataString.threw
     THEN BlobResult(TRUE, dataString.message, FALSE, FALSE)
     ELSE BlobResult(outcome = "exception", "Address unavailable", TRUE, outcome = "200")

\* generateQrCodeBlob on a consolidated QR code whose variable symbol is vs:
\* the payload is built before the try, so its error leaves the function;
\* inside the try every outcome of the fetch but a 200 gives null
generateQrCodeBlob(qrCodeObj, vs, outcome) ==
  LET dataString == generatePaymentQrData(qrCodeObj.accountNumber, qrCodeObj.bankCode, qrCodeObj.currency, qrCodeObj.amount, CellValue(vs), qrCodeObj.message)
  IN IF dataString.threw
     THEN BlobResult(TRUE, dataString.message, FALSE, FALSE)
     ELSE BlobResult(FALSE, "", TRUE, outcome = "200")

\* what the forEach of the inlining stage has done so far: the image names
\* registered, the outcome of every fetch and every resolved variable symbol
InlineResult(threw, message, images, fetches, resolved) ==
  [threw |-> threw, message |-> message, images |-> images,
   fetches |-> fetches, resolved |-> resolved]

\* the forEach of the inlining stage over specs n.., with the fetch outcomes
\* outs: consolidateQrCodeData, then insertQrCodesIntoEmail
RECURSIVE InlineFrom(_, _, _, _)
InlineFrom(specs, outs, n, done) ==
  IF n > Len(specs) THEN done
  ELSE LET c == consolidateQrCodeData(specs[n], realizationData, realizationHeaders)
           qrCodeBlob == generateQrCodeBlob(specs[n], c.value, outs[n])
       IN IF c.threw
          THEN InlineResult(TRUE, c.message, done.images, done.fetches, done.resolved)
          ELSE IF qrCodeBlob.threw
          THEN InlineResult(TRUE, qrCodeBlob.message, done.images,
                            IF qrCodeBlob.fetch
                            THEN Append(done.fetches, outs[n]) ELSE done.fetches,
                            Append(done.resolved, c.value))
          ELSE InlineFrom(specs, outs, n + 1,
                          InlineResult(FALSE, "",
                                       IF qrCodeBlob.blob
                                       THEN done.images \cup {specs[n].imageName}
                                       ELSE done.images,
                                       Append(done.fetches, outs[n]),
                                       Append(done.resolved, c.value)))

\* ------------------------------------------------------------ processEmails
\* the entry test without its look at the status cell
ShouldProcessAnyStatus(conditionValue, sentValue) ==
  conditionValue = Num(1) \/ conditionValue = Num(2)

\* the entry test letting a failure value in the status cell pass
ShouldProcessRetryingFailures(conditionValue, sentValue) ==
  \/ conditionValue = Num(1) /\ sentValue.k \in {"blank", "failed"}
  \/ conditionValue = Num(2)

\* the entry test of a pair on the values read at load
ShouldProcess(conditionValue, sentValue) ==
  (conditionValue = Num(1) /\ sentValue = Blank) \/ conditionValue = Num(2)

\* the forEach loops move on to the next rule, then the next row, then end
NextPair ==
  IF planIndex < Len(planData)
  THEN /\ planIndex' = planIndex + 1
       /\ recipientIndex' = recipientIndex
       /\ pc' = "eval"
  ELSE IF recipientIndex < Len(realizationData)
  THEN /\ planIndex' = 1
       /\ recipientIndex' = recipientIndex + 1
       /\ pc' = "eval"
  ELSE /\ planIndex' = 1
       /\ recipientIndex' = 1
       /\ pc' = "idle"

\* setValue with the 0-based column index passed to the 1-based getRange
setValueOneColumnLeft(v) ==
  sheet' = [sheet EXCEPT ![recipientIndex][sentColIdx - 1] = v]

\* realizationSheet.getRange(recipientIndex + 2, sentColIdx + 1).setValue(v)
setValue(v) ==
  sheet' = [sheet EXCEPT ![recipientIndex][sentColIdx] = v]

Log(field, v) == calls' = [calls EXCEPT ![pair][field] = v]

\* a script execution loads SHEETS_DATA and enters processEmails
StartRun ==
  /\ pc \in {"idle", "aborted"}
  /\ run < MaxRuns
  /\ run' = run + 1
  /\ realizationData' = sheet
  /\ prevCalls' = calls
  /\ calls' = [p \in Pairs |-> NoCalls]
  /\ recipientIndex' = 1
  /\ planIndex' = 1
  /\ pc' = IF Len(planData) < 1 \/ recipientIdx = 0 THEN "aborted"
           ELSE IF Len(sheet) = 0 THEN "idle" ELSE "eval"
  /\ fetched' = <<>>
  /\ UNCHANGED <<scenario, sheet, errorMessage, inlineImages, pureVars>>

\* a rule names a column that is not among the headers: the throw leaves
\* both forEach loops and processEmails
ThrowColumnsNotFound ==
  /\ pc = "eval"
  /\ (conditionColIdx = 0 \/ sentColIdx = 0)
  /\ pc' = "aborted"
  /\ fetched' = <<>>
  /\ UNCHANGED <<scenario, sheet, realizationData, run, recipientIndex,
                 planIndex, errorMessage, inlineImages, calls, prevCalls,
                 pureVars>>

\* the entry test fails: nothing is done for the pair
SkipPair ==
  /\ pc = "eval"
  /\ conditionColIdx # 0 /\ sentColIdx # 0
  /\ ~ShouldProcess(recipientRow[conditionColIdx], recipientRow[sentColIdx])
  /\ NextPair
  /\ fetched' = <<>>
  /\ UNCHANGED <<scenario, sheet, realizationData, run, errorMessage,
                 inlineImages, calls, prevCalls, pureVars>>

\* the entry test holds: the pipeline of the pair begins
EnterPair ==
  /\ pc = "eval"
  /\ conditionColIdx # 0 /\ sentColIdx # 0
  /\ ShouldProcess(recipientRow[conditionColIdx], recipientRow[sentColIdx])
  /\ pc' = "template"
  /\ Log("entered", TRUE)
  /\ inlineImages' = {}
  /\ fetched' = <<>>
  /\ UNCHANGED <<scenario, sheet, realizationData, run, recipientIndex,
                 planIndex, errorMessage, prevCalls, pureVars>>

\* a catch block that records the same text whatever was thrown
FailGeneric(stage, msg) ==
  /\ stage \in {"template", "qr", "fill", "inline", "send"}
  /\ pc' = "catch"
  /\ errorMessage' = "Error"

\* a catch block without its return: the pipeline goes on with the next stage
FailAndGoOn(stage, msg) ==
  /\ pc' = CASE stage = "template" -> "qr"
             [] stage = "qr" -> "fill"
             [] stage = "fill" -> "inline"
             [] stage = "inline" -> "send"
             [] OTHER -> "record"
  /\ errorMessage' = msg

\* a stage throws: its catch block is entered with the error
Fail(stage, msg) ==
  /\ stage \in {"template", "qr", "fill", "inline", "send"}
  /\ pc' = "catch"
  /\ errorMessage' = msg

\* getGmailTemplateFromDrafts_(plan.emailTopic), then the data mapping
FetchTemplate ==
  /\ pc = "template"
  /\ IF plan.emailTopic \in scenario.drafts
     THEN /\ pc' = "qr"
          /\ errorMessage' = errorMessage
          /\ calls' = [calls EXCEPT ![pair].fetch = @ + 1,
                                     ![pair].stages = @ \o <<"template", "mapping">>]
     ELSE /\ Fail("template", "Oops - can't find Gmail draft")
          /\ calls' = [calls EXCEPT ![pair].fetch = @ + 1,
                                     ![pair].stages = Append(@, "template"),
                                     ![pair].failed = "template"]
  /\ UNCHANGED <<fetched, scenario, sheet, realizationData, run, recipientIndex,
                 planIndex, inlineImages, prevCalls, pureVars>>

\* the QR mapping stage: consolidateQrCodeData for every QR code of the topic
ResolveQr ==
  /\ pc = "qr"
  /\ LET e == FirstQrError(qrCodesOf(plan.emailTopic), 1)
     IN IF e.threw
        THEN /\ Fail("qr", e.message)
             /\ calls' = [calls EXCEPT ![pair].stages = Append(@, "qr"),
                                        ![pair].failed = "qr"]
        ELSE /\ pc' = "fill"
             /\ errorMessage' = errorMessage
             /\ Log("stages", Append(calls[pair].stages, "qr"))
  /\ UNCHANGED <<fetched, scenario, sheet, realizationData, run, recipientIndex,
                 planIndex, inlineImages, prevCalls, pureVars>>

\* fillInTemplateFromObject_: JSON.parse rejects a raw control character
FillTemplate ==
  /\ pc = "fill"
  /\ IF recipientRow[recipientIdx] = BadRecipient
     THEN /\ Fail("fill", "Bad control character in string literal in JSON")
          /\ calls' = [calls EXCEPT ![pair].stages = Append(@, "fill"),
                                     ![pair].failed = "fill"]
     ELSE /\ pc' = "inline"
          /\ errorMessage' = errorMessage
          /\ Log("stages", Append(calls[pair].stages, "fill"))
  /\ UNCHANGED <<fetched, scenario, sheet, realizationData, run, recipientIndex,
                 planIndex, inlineImages, prevCalls, pureVars>>

\* the inlining stage: one render call per QR code of the topic
InlineImages ==
  /\ pc = "inline"
  /\ LET specs == qrCodesOf(plan.emailTopic)
     IN \E outs \in [1 .. Len(specs) -> RenderOutcomes] :
          LET r == InlineFrom(specs, outs, 1, InlineResult(FALSE, "", {}, <<>>, <<>>))
          IN /\ inlineImages' = r.images
             /\ fetched' = r.fetches
             /\ IF r.threw
                THEN /\ Fail("inline", r.message)
                     /\ calls' = [calls EXCEPT ![pair].render = Len(r.fetches),
                                                ![pair].resolved = r.resolved,
                                                ![pair].stages = Append(@, "inline"),
                                                ![pair].failed = "inline"]
                ELSE /\ pc' = "send"
                     /\ errorMessage' = errorMessage
                     /\ calls' = [calls EXCEPT ![pair].render = Len(r.fetches),
                                                ![pair].resolved = r.resolved,
                                                ![pair].stages = Append(@, "inline")]
  /\ UNCHANGED <<scenario, sheet, realizationData, run, recipientIndex,
                 planIndex, prevCalls, pureVars>>

\* sendEmail with its exception swallowed: the timestamp is recorded anyway
DispatchIgnoringError ==
  /\ pc = "send"
  /\ \E ok \in BOOLEAN :
       /\ pc' = "record"
       /\ errorMessage' = errorMessage
       /\ calls' = [calls EXCEPT ![pair].send = @ + 1, ![pair].sendOk = ok,
                                  ![pair].stages = Append(@, "send")]
  /\ UNCHANGED <<fetched, scenario, sheet, realizationData, run, recipientIndex,
                 planIndex, inlineImages, prevCalls, pureVars>>

\* sendEmail called a second time after its first call threw
DispatchRetrying ==
  /\ pc = "send"
  /\ \E ok \in BOOLEAN :
       IF ok
       THEN /\ pc' = "record"
            /\ errorMessage' = errorMessage
            /\ calls' = [calls EXCEPT ![pair].send = @ + 1,
                                       ![pair].stages = Append(@, "send"),
                                       ![pair].sendOk = TRUE]
       ELSE IF calls[pair].send = 0
       THEN /\ pc' = "send"
            /\ errorMessage' = errorMessage
            /\ calls' = [calls EXCEPT ![pair].send = @ + 1]
       ELSE /\ Fail("send", "Service invoked too many times")
            /\ calls' = [calls EXCEPT ![pair].send = @ + 1,
                                       ![pair].stages = Append(@, "send"),
                                       ![pair].failed = "send"]
  /\ UNCHANGED <<fetched, scenario, sheet, realizationData, run, recipientIndex,
                 planIndex, inlineImages, prevCalls, pureVars>>

\* GmailApp.sendEmail returns or throws
Dispatch ==
  /\ pc = "send"
  /\ \E ok \in BOOLEAN :
       IF ok
       THEN /\ pc' = "record"
            /\ errorMessage' = errorMessage
            /\ calls' = [calls EXCEPT ![pair].send = @ + 1,
                                       ![pair].stages = Append(@, "send"),
                                       ![pair].sendOk = TRUE]
       ELSE /\ Fail("send", "Service invoked too many times")
            /\ calls' = [calls EXCEPT ![pair].send = @ + 1,
                                       ![pair].stages = Append(@, "send"),
                                       ![pair].failed = "send"]
  /\ UNCHANGED <<fetched, scenario, sheet, realizationData, run, recipientIndex,
                 planIndex, inlineImages, prevCalls, pureVars>>

\* the timestamp kept in sentStatus but never put into the sheet
RecordSentNowhere ==
  /\ pc = "record"
  /\ NextPair
  /\ UNCHANGED <<fetched, scenario, sheet, realizationData, run, errorMessage,
                 inlineImages, calls, prevCalls, pureVars>>

\* after sendEmail returned: range.setValue(sentStatus) with the timestamp
RecordSent ==
  /\ pc = "record"
  /\ setValue(SentAt(run))
  /\ calls' = [calls EXCEPT ![pair].wrote = Append(@, SentAt(run))]
  /\ NextPair
  /\ UNCHANGED <<fetched, scenario, realizationData, run, errorMessage, inlineImages,
                 prevCalls, pureVars>>

\* a catch block that logs the error and returns without setValue
WriteFailureNowhere ==
  /\ pc = "catch"
  /\ NextPair
  /\ UNCHANGED <<fetched, scenario, sheet, realizationData, run, errorMessage,
                 inlineImages, calls, prevCalls, pureVars>>

\* a catch block: the message and the time go to the status cell, return null
WriteFailure ==
  /\ pc = "catch"
  /\ setValue(FailedAt(errorMessage, run))
  /\ calls' = [calls EXCEPT ![pair].wrote = Append(@, FailedAt(errorMessage, run))]
  /\ NextPair
  /\ UNCHANGED <<fetched, scenario, realizationData, run, errorMessage, inlineImages,
                 prevCalls, pureVars>>


\* ------------------------------------------------------ convertToIBAN calls
\* the characters the generated argument strings are made of
ArgChars == {"0", "7", "-"}

\* all strings of at most n characters over ArgChars
RECURSIVE StringsUpTo(_)
StringsUpTo(n) ==
  IF n = 0 THEN {<<>>}
  ELSE LET shorter == StringsUpTo(n - 1)
       IN shorter \cup {<<ch>> \o str0 : ch \in ArgChars, str0 \in shorter}

LongAccount == <<"9", "8", "7", "6", "5", "4", "3", "2", "1", "0", "9">>

AccountArgs ==
  {Undefined, Null, JsString(ExampleAccount), JsNumber(ExampleAccount),
   JsString(LongAccount)}
    \cup {JsString(str0) : str0 \in StringsUpTo(MaxChars)}

BankArgs ==
  {Undefined, Null, JsString(<<"0", "8", "0", "0">>), JsNumber(<<"8", "0", "0">>),
   JsString(<<>>), JsString(<<"2", "7", "-">>)}

PrefixArgs ==
  {Undefined, Null, JsString(<<"1", "9">>), JsNumber(<<"1", "9">>),
   JsString(<<"1", " ", "9">>)}

NoIbanCall == [accountNumber |-> Undefined, bankCode |-> Undefined, prefix |-> Undefined]

NoIbanResult == [threw |-> FALSE, message |-> "", value |-> <<"pending">>]

\* a call of convertToIBAN on the chosen arguments
CallConvertToIBAN ==
  /\ ibanResult = NoIbanResult
  /\ ibanResult' = convertToIBAN(ibanArgs.accountNumber, ibanArgs.bankCode,
                                 ibanArgs.prefix)
  /\ UNCHANGED <<ibanArgs, mergeVars, qrVars, templateVars, fioVars, noteVars,
                 modVars, mappingVars>>

\* ---------------------------------------------- generatePaymentQrData calls
QrAccountArgs ==
  {Undefined, JsString(ExampleAccount), JsNumber(ExampleAccount), JsString(<<>>)}

QrBankArgs == {Null, JsString(<<"0", "8", "0", "0">>)}

QrCurrencyArgs == {JsString(<<"C", "Z", "K">>), JsString(<<"E", "U", "R">>)}

QrAmountArgs ==
  {JsNumber(<<"1", "0", "0">>), JsNumber(<<"1", "2", ".", "5">>),
   JsNumber(<<"0", ".", "0", "5">>), JsString(<<>>)}

QrSymbolArgs ==
  {Undefined, Null, JsString(<<>>), JsString(<<"0">>), JsNumber(<<"0">>),
   JsNumber(<<"7", "7">>), JsString(<<"7", "7">>)}

QrMessageArgs ==
  {Undefined, JsString(<<>>), JsString(<<"f", "e", "e">>), JsNumber(<<"0">>),
   JsString(<<"*", "V", "S", ":", "1">>)}

NoQrCall ==
  [accountNumber |-> Undefined, bankCode |-> Undefined, currency |-> Undefined,
   amount |-> Undefined, variableSymbol |-> Undefined, message |-> Undefined]

NoQrResult == [threw |-> FALSE, message |-> "", value |-> <<"pending">>]

\* a call of generatePaymentQrData on the chosen arguments
CallGeneratePaymentQrData ==
  /\ qrResult = NoQrResult
  /\ qrResult' = generatePaymentQrData(qrArgs.accountNumber, qrArgs.bankCode,
                                       qrArgs.currency, qrArgs.amount,
                                       qrArgs.variableSymbol, qrArgs.message)
  /\ UNCHANGED <<qrArgs, mergeVars, ibanVars, templateVars, fioVars, noteVars,
                 modVars, mappingVars>>

\* ------------------------------------------------ fillInTemplateFromObject_
\* characters that need a name: the double quote, the backslash and the
\* backspace (a control character that TLA+ strings cannot spell)
DQuote == "\""
Backslash == "\\"
Backspace == "<BS>"

\* the control characters that a JSON string may not hold unescaped
ControlChars == {Backspace, "\f", "\n", "\r", "\t"}

\* the concatenation of a sequence of strings
RECURSIVE Concat(_)
Concat(strs) == IF strs = <<>> THEN <<>> ELSE Head(strs) \o Concat(Tail(strs))

\* what JSON.stringify writes for one character of a string
StringifyChar(ch) ==
  IF ch = DQuote THEN <<Backslash, DQuote>>
  ELSE IF ch = Backslash THEN <<Backslash, Backslash>>
  ELSE IF ch = Backspace THEN <<Backslash, "b">>
  ELSE IF ch = "\f" THEN <<Backslash, "f">>
  ELSE IF ch = "\n" THEN <<Backslash, "n">>
  ELSE IF ch = "\r" THEN <<Backslash, "r">>
  ELSE IF ch = "\t" THEN <<Backslash, "t">>
  ELSE <<ch>>

\* JSON.stringify of a string: the quoted literal
StringifyString(str) ==
  <<DQuote>> \o Concat([n \in 1 .. Len(str) |-> StringifyChar(str[n])]) \o <<DQuote>>

SubjectKey == <<"s", "u", "b", "j", "e", "c", "t">>
TextKey == <<"t", "e", "x", "t">>
HtmlKey == <<"h", "t", "m", "l">>

\* JSON.stringify(template) of the message {subject, text, html}
JSONstringify(message) ==
  <<"{">> \o StringifyString(SubjectKey) \o <<":">> \o StringifyString(message.subject)
    \o <<",">> \o StringifyString(TextKey) \o <<":">> \o StringifyString(message.text)
    \o <<",">> \o StringifyString(HtmlKey) \o <<":">> \o StringifyString(message.html)
    \o <<"}">>

\* str.replace(/[ch]/g, replacement)
RECURSIVE ReplaceAll(_, _, _)
ReplaceAll(str, ch, replacement) ==
  IF str = <<>> THEN <<>>
  ELSE (IF Head(str) = ch THEN replacement ELSE <<Head(str)>>)
         \o ReplaceAll(Tail(str), ch, replacement)

\* escapeData_(str): the eight replaces in the order of the code, on String(str)
escapeData_(str) ==
  LET s1 == ReplaceAll(str, Backslash, <<Backslash, Backslash>>)
      s2 == ReplaceAll(s1, DQuote, <<Backslash, DQuote>>)
      s3 == ReplaceAll(s2, "/", <<Backslash, "/">>)
      s4 == ReplaceAll(s3, Backspace, <<Backslash, "b">>)
      s5 == ReplaceAll(s4, "\f", <<Backslash, "f">>)
      s6 == ReplaceAll(s5, "\n", <<Backslash, "n">>)
      s7 == ReplaceAll(s6, "\r", <<Backslash, "r">>)
  IN ReplaceAll(s7, "\t", <<Backslash, "t">>)

IsBrace(ch) == ch \in {"{", "}"}

\* the first position from i on that holds a brace, or Len(str) + 1
RECURSIVE NextBrace(_, _)
NextBrace(str, i) ==
  IF i > Len(str) \/ IsBrace(str[i]) THEN i ELSE NextBrace(str, i + 1)

\* the last position of a match of /{{[^{}]+}}/ that starts at i, or 0
MatchEnd(str, i) ==
  IF i + 1 <= Len(str) /\ str[i] = "{" /\ str[i + 1] = "{"
  THEN LET j == NextBrace(str, i + 2)
       IN IF j > i + 2 /\ j + 1 <= Len(str) /\ str[j] = "}" /\ str[j + 1] = "}"
          THEN j + 1 ELSE 0
  ELSE 0

\* the names every object inherits: one of them stands for all
ConstructorKey == <<"c", "o", "n", "s", "t", "r", "u", "c", "t", "o", "r">>

\* String(Object), the inherited value of data.constructor
ObjectFunction ==
  [t |-> "function",
   d |-> <<"f", "u", "n", "c", "t", "i", "o", "n", " ", "O", "b", "j", "e",
           "c", "t", "(", ")", " ", "{", " ", "[", "n", "a", "t", "i", "v",
           "e", " ", "c", "o", "d", "e", "]", " ", "}">>]

JsBoolean(chars) == [t |-> "boolean", d |-> chars]

\* data[key]: the own property, else the inherited one, else undefined
Lookup(mapping, key) ==
  IF key \in DOMAIN mapping THEN mapping[key]
  ELSE IF key = ConstructorKey THEN ObjectFunction
  ELSE Undefined

\* v || "": false, 0, "", null and undefined give the empty string
OrEmpty(v) ==
  IF v.t \in {"undefined", "null"} \/ v.d = <<>>
     \/ (v.t = "number" /\ v.d = <<"0">>)
     \/ (v.t = "boolean" /\ v.d = <<"f", "a", "l", "s", "e">>)
  THEN JsString(<<>>) ELSE v

\* the callback of the token replacement, on the matched text
Replacement(mapping, match) ==
  escapeData_(OrEmpty(Lookup(mapping, SelectSeq(match, LAMBDA ch : ~IsBrace(ch)))).d)

\* replacement of the first match only, the rest of the string as it is
RECURSIVE ReplaceFirstToken(_, _, _)
ReplaceFirstToken(str, mapping, i) ==
  IF i > Len(str) THEN <<>>
  ELSE LET e == MatchEnd(str, i)
       IN IF e = 0 THEN <<str[i]>> \o ReplaceFirstToken(str, mapping, i + 1)
          ELSE Replacement(mapping, SubSeq(str, i, e)) \o SubSeq(str, e + 1, Len(str))

\* template_string.replace(/{{[^{}]+}}/g, key => ...) from position i on
RECURSIVE ReplaceTokens(_, _, _)
ReplaceTokens(str, mapping, i) ==
  IF i > Len(str) THEN <<>>
  ELSE LET e == MatchEnd(str, i)
       IN IF e = 0 THEN <<str[i]>> \o ReplaceTokens(str, mapping, i + 1)
          ELSE Replacement(mapping, SubSeq(str, i, e))
                 \o ReplaceTokens(str, mapping, e + 1)

ParseFail == [ok |-> FALSE, value |-> <<>>, next |-> 0]

\* the character an escape sequence \ch of a JSON string stands for
Unescape(ch) ==
  IF ch = "b" THEN Backspace
  ELSE IF ch = "f" THEN "\f"
  ELSE IF ch = "n" THEN "\n"
  ELSE IF ch = "r" THEN "\r"
  ELSE IF ch = "t" THEN "\t"
  ELSE ch

\* JSON.parse of a string literal whose opening quote is before position i
RECURSIVE ParseString(_, _, _)
ParseString(str, i, acc) ==
  IF i > Len(str) THEN ParseFail
  ELSE IF str[i] = DQuote THEN [ok |-> TRUE, value |-> acc, next |-> i + 1]
  ELSE IF str[i] = Backslash
  THEN IF i + 1 <= Len(str)
          /\ str[i + 1] \in {DQuote, Backslash, "/", "b", "f", "n", "r", "t"}
       THEN ParseString(str, i + 2, acc \o <<Unescape(str[i + 1])>>)
       ELSE ParseFail
  ELSE IF str[i] \in ControlChars THEN ParseFail
  ELSE ParseString(str, i + 1, acc \o <<str[i]>>)

\* JSON.parse of the members "key":"value" of an object from position i on,
\* up to the closing brace that ends the text
RECURSIVE ParseMembers(_, _, _)
ParseMembers(str, i, acc) ==
  IF i > Len(str) \/ str[i] # DQuote THEN ParseFail
  ELSE LET k == ParseString(str, i + 1, <<>>)
       IN IF ~k.ok \/ k.next + 1 > Len(str) \/ str[k.next] # ":"
             \/ str[k.next + 1] # DQuote
          THEN ParseFail
          ELSE LET v == ParseString(str, k.next + 2, <<>>)
                   members == Append(acc, <<k.value, v.value>>)
               IN IF ~v.ok \/ v.next > Len(str) THEN ParseFail
                  ELSE IF str[v.next] = "," THEN ParseMembers(str, v.next + 1, members)
                  ELSE IF str[v.next] = "}" /\ v.next = Len(str)
                  THEN [ok |-> TRUE, value |-> members, next |-> v.next + 1]
                  ELSE ParseFail

\* object[key] of a parsed object: the last member of that name, or undefined
RECURSIVE Member(_, _)
Member(members, key) ==
  IF members = <<>> THEN Undefined
  ELSE LET last == members[Len(members)]
       IN IF last[1] = key THEN JsString(last[2])
          ELSE Member(SubSeq(members, 1, Len(members) - 1), key)

NoFields == [subject |-> Undefined, text |-> Undefined, html |-> Undefined]

\* JSON.parse(text) of an object of strings: the message, or the SyntaxError
JSONparse(str) ==
  LET parsed == IF Len(str) >= 2 /\ str[1] = "{" THEN ParseMembers(str, 2, <<>>)
                ELSE ParseFail
  IN IF parsed.ok
     THEN [threw |-> FALSE, message |-> "",
           value |-> [subject |-> Member(parsed.value, SubjectKey),
                      text |-> Member(parsed.value, TextKey),
                      html |-> Member(parsed.value, HtmlKey)]]
     ELSE [threw |-> TRUE, message |-> "SyntaxError", value |-> NoFields]

\* fillInTemplateFromObject_(template, data): stringify, replace the tokens,
\* parse
fillInTemplateFromObject_(message, mapping) ==
  JSONparse(ReplaceTokens(JSONstringify(message), mapping, 1))

\* the pieces the generated subjects are made of
TokenA == <<"{", "{", "a", "}", "}">>
TokenB == <<"{", "{", "b", "}", "}">>
TokenUpperA == <<"{", "{", "A", "}", "}">>
TokenConstructor == <<"{", "{">> \o ConstructorKey \o <<"}", "}">>

Pieces ==
  {<<"x">>, TokenA, TokenB, TokenUpperA, TokenConstructor, <<"{", "{">>,
   <<"}", "}">>, <<DQuote>>, <<"\n">>}

\* the concatenations of at most n pieces
RECURSIVE FieldsUpTo(_)
FieldsUpTo(n) ==
  IF n = 0 THEN {<<>>}
  ELSE LET shorter == FieldsUpTo(n - 1)
       IN shorter \cup {piece \o str : piece \in Pieces, str \in shorter}

TextFields == {<<>>, <<"a", "}", "}", "y">>, TokenA \o <<" ">> \o TokenA}

HtmlFields == {<<"<", "p", ">">> \o TokenA \o <<"<", "/", "p", ">">>}

AValues ==
  {JsString(<<>>), JsString(<<"v">>), JsNumber(<<"0">>), JsNumber(<<"7">>),
   JsBoolean(<<"f", "a", "l", "s", "e">>), JsString(TokenB),
   JsString(<<Backslash, DQuote, "/", "n">>),
   JsString(<<Backspace, "\f", "\n", "\r", "\t">>)}

\* the data mappings: a absent or one of AValues, b absent or "w"
DataMappings ==
  LET a == <<"a">>
      b == <<"b">>
  IN {<<>>} \cup {[k \in {b} |-> JsString(<<"w">>)]}
       \cup {[k \in {a} |-> v] : v \in AValues}
       \cup {[k \in {a, b} |-> IF k = a THEN v ELSE JsString(<<"w">>)] : v \in AValues}

NoTemplate == [subject |-> <<>>, text |-> <<>>, html |-> <<>>]

NoMsgObj == [threw |-> FALSE, message |-> "pending", value |-> NoFields]

\* a call of fillInTemplateFromObject_ on the chosen template and data
CallFillInTemplate ==
  /\ msgObj = NoMsgObj
  /\ msgObj' = fillInTemplateFromObject_(template, templateData)
  /\ UNCHANGED <<template, templateData, mergeVars, ibanVars, qrVars, fioVars, noteVars,
                 modVars, mappingVars>>

\* ---------------------------------------------------------------- FioParser
\* const VARIABLE_SYMBOL_KEY = '72405'
VARIABLE_SYMBOL_KEY == <<"7", "2", "4", "0", "5">>

\* the length of a key in a transaction note
KeyLength == 8

\* the number of columns of the header row
HeaderWidth == 12

\* str.split(sep): the parts between the separators, the empty ones included
RECURSIVE Split(_, _, _)
Split(str, sep, part) ==
  IF str = <<>> THEN <<part>>
  ELSE IF Head(str) = sep THEN <<part>> \o Split(Tail(str), sep, <<>>)
  ELSE Split(Tail(str), sep, Append(part, Head(str)))

\* parts.join(sep)
RECURSIVE Join(_, _)
Join(parts, sep) ==
  IF parts = <<>> THEN <<>>
  ELSE IF Len(parts) = 1 THEN parts[1]
  ELSE parts[1] \o <<sep>> \o Join(Tail(parts), sep)

\* parseTransactionNote that keeps the runs of 8 digits or more
parseTransactionNoteAtLeast(note) ==
  IF note = <<>> THEN [keys |-> <<>>, count |-> 0]
  ELSE LET cleanedNote == [n \in 1 .. Len(note) |->
                             IF IsDigit(note[n]) THEN note[n] ELSE " "]
           parts == SelectSeq(Split(cleanedNote, " ", <<>>),
                              LAMBDA part : part # <<>>)
           validKeys == SelectSeq(parts, LAMBDA part : Len(part) >= KeyLength)
       IN [keys |-> Join(validKeys, ","), count |-> Len(validKeys)]

\* parseTransactionNote that deletes the characters that are neither digits
\* nor spaces instead of putting a space in their place
parseTransactionNoteDeleting(note) ==
  IF note = <<>> THEN [keys |-> <<>>, count |-> 0]
  ELSE LET cleanedNote == SelectSeq(note, LAMBDA ch : IsDigit(ch) \/ ch = " ")
           parts == SelectSeq(Split(cleanedNote, " ", <<>>),
                              LAMBDA part : part # <<>>)
           validKeys == SelectSeq(parts, LAMBDA part : Len(part) = KeyLength)
       IN [keys |-> Join(validKeys, ","), count |-> Len(validKeys)]

\* parseTransactionNote(note): the 8-digit runs of the note, joined by commas,
\* and their number
parseTransactionNote(note) ==
  IF note = <<>> THEN [keys |-> <<>>, count |-> 0]
  ELSE LET cleanedNote == [n \in 1 .. Len(note) |->
                             IF IsDigit(note[n]) THEN note[n] ELSE " "]
           parts == SelectSeq(Split(cleanedNote, " ", <<>>),
                              LAMBDA part : part # <<>>)
           validKeys == SelectSeq(parts, LAMBDA part : Len(part) = KeyLength)
       IN [keys |-> Join(validKeys, ","), count |-> Len(validKeys)]

\* a transaction of the response: id is id?.value || '' (0 stands for ''),
\* variableSymbol and message the strings variableSymbol?.value || '' and
\* message?.value || ''
Transaction(id, variableSymbol, message) ==
  [id |-> id, variableSymbol |-> variableSymbol, message |-> message]

\* a row of the sheet; the columns that no claim reads are left out
HeaderRow(width) ==
  [kind |-> "header", width |-> width, message |-> <<>>, variableSymbol |-> <<>>,
   parsedKeys |-> <<>>, keysCount |-> 0, transactionId |-> 0]

\* the row that both versions build for a transaction and its parsed note
TransactionRow(transaction, parsedNote) ==
  [kind |-> "transaction", width |-> HeaderWidth,
   message |-> transaction.message,
   variableSymbol |-> transaction.variableSymbol,
   parsedKeys |-> parsedNote.keys, keysCount |-> parsedNote.count,
   transactionId |-> transaction.id]

\* processTransaction that inserts the row under the header row
processTransactionOnTop(transaction, rows, variableSymbolKey) ==
  LET parsedNote ==
        IF transaction.variableSymbol = variableSymbolKey
        THEN parseTransactionNote(transaction.message)
        ELSE [keys |-> <<>>, count |-> 0]
  IN <<Head(rows), TransactionRow(transaction, parsedNote)>> \o Tail(rows)

\* processTransaction that parses the note whatever the variable symbol
processTransactionAlwaysParsing(transaction, rows, variableSymbolKey) ==
  Append(rows, TransactionRow(transaction, parseTransactionNote(transaction.message)))

\* processTransaction that appends no row for an ID the sheet already holds
processTransactionOnce(transaction, rows, variableSymbolKey) ==
  LET parsedNote ==
        IF transaction.variableSymbol = variableSymbolKey
        THEN parseTransactionNote(transaction.message)
        ELSE [keys |-> <<>>, count |-> 0]
  IN IF \E n \in 1 .. Len(rows) :
          transaction.id # 0 /\ rows[n].transactionId = transaction.id
     THEN rows
     ELSE Append(rows, TransactionRow(transaction, parsedNote))

\* processTransaction(transaction, sheet, variableSymbolKey): the rows of the
\* sheet after sheet.appendRow(row)
processTransaction(transaction, rows, variableSymbolKey) ==
  LET parsedNote ==
        IF transaction.variableSymbol = variableSymbolKey
        THEN parseTransactionNote(transaction.message)
        ELSE [keys |-> <<>>, count |-> 0]
  IN Append(rows, TransactionRow(transaction, parsedNote))

\* sheet.getDataRange().getValues(): an empty sheet reads as one row of one
\* empty cell
getValues(rows) ==
  IF rows = <<>>
  THEN <<[kind |-> "blank", width |-> 1, message |-> <<>>, variableSymbol |-> <<>>,
          parsedKeys |-> <<>>, keysCount |-> 0, transactionId |-> 0]>>
  ELSE rows

\* the width of the grid that getValues returns: that of its widest row
GridWidth(values) ==
  CHOOSE w \in {values[n].width : n \in 1 .. Len(values)} :
    \A n \in 1 .. Len(values) : values[n].width <= w

\* the rows after the header check: appendRow(headers) on no data, else
\* setValues([headers]) on row 1 when the grid is narrower than the headers
WithHeaders(rows) ==
  LET values == getValues(rows)
  IN IF Len(values) = 0 THEN Append(rows, HeaderRow(HeaderWidth))
     ELSE IF GridWidth(values) < HeaderWidth
     THEN <<HeaderRow(HeaderWidth)>> \o Tail(values)
     ELSE rows

\* transactions.forEach(transaction => processTransaction(...)) of the
\* cursor version, from transaction i on
RECURSIVE ForEachCursor(_, _, _)
ForEachCursor(transactions, i, rows) ==
  IF i > Len(transactions) THEN rows
  ELSE ForEachCursor(transactions, i + 1,
                     processTransaction(transactions[i], rows, VARIABLE_SYMBOL_KEY))

\* existingTransactionIds: the true IDs of the rows after row 0, when the
\* grid reaches the ID column
ExistingTransactionIds(values) ==
  IF GridWidth(values) < HeaderWidth THEN {}
  ELSE {values[n].transactionId : n \in 2 .. Len(values)} \ {0}

\* transactions.forEach(...) of the version with the ID set, from transaction
\* i on: a logged ID is skipped, another variable symbol is not appended
RECURSIVE ForEachDedup(_, _, _, _)
ForEachDedup(transactions, i, rows, existingTransactionIds) ==
  IF i > Len(transactions) THEN rows
  ELSE LET transaction == transactions[i]
           appended ==
             IF transaction.id # 0 /\ transaction.id \in existingTransactionIds
             THEN rows
             ELSE IF transaction.variableSymbol = VARIABLE_SYMBOL_KEY
             THEN Append(rows, TransactionRow(transaction,
                                              parseTransactionNote(transaction.message)))
             ELSE rows
       IN ForEachDedup(transactions, i + 1, appended, existingTransactionIds)

\* the responses of the bank: kind is "null" (the fetch failed or threw), "empty" (no
\* accountStatement or no transactionList), "noTransaction" (a list without
\* the transaction field) or "list"
Response(kind, transactions) == [kind |-> kind, transaction |-> transactions]

KeyOne == <<"1", "2", "3", "4", "5", "6", "7", "8">>
KeyTwo == <<"8", "7", "6", "5", "4", "3", "2", "1">>

\* the transactions the generated responses are made of
Transactions ==
  {Transaction(1, VARIABLE_SYMBOL_KEY, <<"a">> \o KeyOne \o <<" ", "x", ";">> \o KeyTwo),
   Transaction(2, <<"1", "2", "3", "4">>, KeyOne),
   Transaction(0, VARIABLE_SYMBOL_KEY,
               <<"1", "2", "3", "4", "5", "6", "7", "-">> \o KeyOne \o <<"9">>)}

\* the sequences of at most n transactions
RECURSIVE BatchesUpTo(_)
BatchesUpTo(n) ==
  IF n = 0 THEN {<<>>}
  ELSE LET shorter == BatchesUpTo(n - 1)
       IN shorter \cup {<<t>> \o batch : t \in Transactions, batch \in shorter}

Responses ==
  {Response("null", <<>>), Response("empty", <<>>), Response("noTransaction", <<>>)}
    \cup {Response("list", batch) : batch \in BatchesUpTo(MaxBatch)}

NoResponse == Response("none", <<>>)

\* writeTransactionsToSheet with the header check ahead of the tests of the
\* response
WriteTransactionsHeadersFirst ==
  /\ variant = "cursor"
  /\ fioRuns < MaxFetches
  /\ fioRuns' = fioRuns + 1
  /\ \E response \in Responses :
       /\ transactionsData' = response
       /\ IF ~fioSheet.exists
          THEN UNCHANGED <<fioSheet, existingData>>
          ELSE /\ existingData' = getValues(fioSheet.rows)
               /\ fioSheet' =
                    [fioSheet EXCEPT
                       !.rows = ForEachCursor(response.transaction, 1,
                                              WithHeaders(fioSheet.rows))]
  /\ UNCHANGED <<variant, mergeVars, ibanVars, qrVars, templateVars, noteVars,
                 modVars, mappingVars>>

\* writeTransactionsToSheet(sheetName) of the version that relies on the
\* cursor of the bank
WriteTransactionsCursor ==
  /\ variant = "cursor"
  /\ fioRuns < MaxFetches
  /\ fioRuns' = fioRuns + 1
  /\ \E response \in Responses :
       /\ transactionsData' = response
       /\ IF response.kind \in {"null", "empty"} \/ response.transaction = <<>>
             \/ ~fioSheet.exists
          THEN UNCHANGED <<fioSheet, existingData>>
          ELSE /\ existingData' = getValues(fioSheet.rows)
               /\ fioSheet' =
                    [fioSheet EXCEPT
                       !.rows = ForEachCursor(response.transaction, 1,
                                              WithHeaders(fioSheet.rows))]
  /\ UNCHANGED <<variant, mergeVars, ibanVars, qrVars, templateVars, noteVars,
                 modVars, mappingVars>>

\* writeTransactionsToSheet(sheetId, sheetName) of the version that keeps the
\* set of logged transaction IDs; forEach of an undefined list throws after
\* the header check
WriteTransactionsDedup ==
  /\ variant = "dedup"
  /\ fioRuns < MaxFetches
  /\ fioRuns' = fioRuns + 1
  /\ \E response \in Responses :
       /\ transactionsData' = response
       /\ IF response.kind \in {"null", "empty"} \/ ~fioSheet.exists
          THEN UNCHANGED <<fioSheet, existingData>>
          ELSE /\ existingData' = getValues(fioSheet.rows)
               /\ fioSheet' =
                    [fioSheet EXCEPT
                       !.rows =
                         IF response.kind = "noTransaction"
                         THEN WithHeaders(fioSheet.rows)
                         ELSE ForEachDedup(response.transaction, 1,
                                           WithHeaders(fioSheet.rows),
                                           ExistingTransactionIds(
                                             getValues(fioSheet.rows)))]
  /\ UNCHANGED <<variant, mergeVars, ibanVars, qrVars, templateVars, noteVars,
                 modVars, mappingVars>>

\* ----------------------------------------------- parseTransactionNote calls
\* the pieces the generated notes are made of
NotePieces ==
  {KeyOne, KeyTwo, <<"1", "2", "3", "4", "5", "6", "7">>, <<"9">>, <<" ">>,
   <<"R", "E", "F", " ">>, <<" ", "e", "n", "d">>, <<"-">>}

\* the concatenations of at most n pieces
RECURSIVE NotesUpTo(_)
NotesUpTo(n) ==
  IF n = 0 THEN {<<>>}
  ELSE LET shorter == NotesUpTo(n - 1)
       IN shorter \cup {piece \o note : piece \in NotePieces, note \in shorter}

NoNoteResult == [keys |-> <<"pending">>, count |-> 0]

\* a call of parseTransactionNote on the chosen note; undefined, null and ""
\* are the notes that !note catches
CallParseTransactionNote ==
  /\ noteResult = NoNoteResult
  /\ noteResult' = parseTransactionNote(noteArg.d)
  /\ UNCHANGED <<noteArg, mergeVars, ibanVars, qrVars, templateVars, fioVars,
                 modVars, mappingVars>>

\* ------------------------------------------------------------ modulo97 calls
\* all strings of at most n decimal digits
RECURSIVE DigitStringsUpTo(_)
DigitStringsUpTo(n) ==
  IF n = 0 THEN {<<>>}
  ELSE LET shorter == DigitStringsUpTo(n - 1)
       IN shorter \cup {Append(str0, Digits[d]) : str0 \in shorter, d \in 1 .. 10}

\* one turn of the for loop of modulo97 on the chosen string
Modulo97Step ==
  /\ mod97Pos < Len(mod97Str)
  /\ mod97Pos' = mod97Pos + 1
  /\ mod97Rem' = Modulo97From(<<mod97Str[mod97Pos + 1]>>, 1, mod97Rem)
  /\ UNCHANGED <<mod97Str, mergeVars, ibanVars, qrVars, templateVars, fioVars,
                 noteVars, mappingVars>>

\* ------------------------------------------------------------- data mapping
\* map[key] = value on an object: the key is added or its value replaced
Put(map, key, value) ==
  [k \in DOMAIN map \cup {key} |-> IF k = key THEN value ELSE map[k]]

NoKeys == [k \in {} |-> Blank]

\* realizationHeaders.reduce((map, header, index) => ...), from column index on
RECURSIVE ReduceHeaders(_, _, _, _)
ReduceHeaders(headers, row, index, map) ==
  IF index > Len(headers) THEN map
  ELSE ReduceHeaders(headers, row, index + 1, Put(map, headers[index], row[index]))

\* the img tag that the QR stage puts under the image name
ImgTag(imageName) == Str("<img src=\"cid:" \o imageName \o "\" alt=\"QR Code\">")

\* the forEach of the QR stage on the data mapping, from QR code n on
RECURSIVE WithQrKeys(_, _, _)
WithQrKeys(map, specs, n) ==
  IF n > Len(specs) THEN map
  ELSE WithQrKeys(Put(map, specs[n].imageName, ImgTag(specs[n].imageName)), specs, n + 1)

\* the spread {...dataMapping, recipient, conditionValue, sentValue}
WithSynthetic(map, recipient, conditionValue, sentValue) ==
  Put(Put(Put(map, "recipient", recipient), "conditionValue", conditionValue), "sentValue", sentValue)

\* the data mapping built from the first data row whatever the pair
FillArgumentFirstRow(headers, data, index, rule, specs) ==
  WithSynthetic(WithQrKeys(ReduceHeaders(headers, data[1], 1, NoKeys), specs, 1),
                data[index][IndexOf(headers, RECIPIENT_COL)],
                data[index][IndexOf(headers, rule.conditionColumn)],
                data[index][IndexOf(headers, rule.sentColumn)])

\* the second argument of fillInTemplateFromObject_ for the pair of row
\* index and the rule, with the QR codes specs of the topic of the rule
FillArgument(headers, data, index, rule, specs) ==
  WithSynthetic(WithQrKeys(ReduceHeaders(headers, data[index], 1, NoKeys), specs, 1),
                data[index][IndexOf(headers, RECIPIENT_COL)],
                data[index][IndexOf(headers, rule.conditionColumn)],
                data[index][IndexOf(headers, rule.sentColumn)])

\* header rows: a plain one, one with a column named as a synthetic key and
\* one with a column named as the QR image
HeaderRows ==
  {<<"Recipient", "Cond", "Sent", "Name">>,
   <<"Recipient", "Cond", "Sent", "recipient">>,
   <<"Recipient", "sentValue", "Sent", "conditionValue">>,
   <<"Recipient", "Cond", "Sent", "qr1">>}

\* the rule of the pair: its columns are the second and the third
RuleOf(headers) == Rule("T2", headers[2], headers[3])

MappingRows ==
  {<<r, c, s, x>> : r \in {Str("a@x"), Str("b@x")}, c \in {Num(1), Num(2)},
                    s \in {Blank}, x \in {Str("x"), Str("y")}}

MappingCalls ==
  {[headers |-> h, data |-> d, index |-> i, specs |-> q] :
     h \in HeaderRows,
     d \in UNION {[1 .. n -> MappingRows] : n \in 1 .. MaxRows},
     i \in 1 .. MaxRows, q \in {<<>>, <<QrGood>>}}

NoMappingCall == [headers |-> <<>>, data |-> <<>>, index |-> 0, specs |-> <<>>]

NoMappingResult == [k \in {"pending"} |-> Blank]

\* the pipeline of a pair up to the call of fillInTemplateFromObject_
CallFillArgument ==
  /\ mappingResult = NoMappingResult
  /\ mappingResult' = FillArgument(mappingCall.headers, mappingCall.data, mappingCall.index, RuleOf(mappingCall.headers), mappingCall.specs)
  /\ UNCHANGED <<mappingCall, mergeVars, ibanVars, qrVars, templateVars, fioVars,
                 noteVars, modVars>>

\* ------------------------------------------------------------ specifications
\* no convertToIBAN call in progress
IbanIdle ==
  /\ ibanArgs = NoIbanCall
  /\ ibanResult = NoIbanResult

\* no generatePaymentQrData call in progress
QrIdle ==
  /\ qrArgs = NoQrCall
  /\ qrResult = NoQrResult

\* no fillInTemplateFromObject_ call in progress
TemplateIdle ==
  /\ template = NoTemplate
  /\ templateData = <<>>
  /\ msgObj = NoMsgObj

\* no writeTransactionsToSheet invocation yet
FioIdle ==
  /\ variant = "cursor"
  /\ fioSheet = [exists |-> FALSE, rows |-> <<>>]
  /\ fioRuns = 0
  /\ transactionsData = NoResponse
  /\ existingData = <<>>

\* no parseTransactionNote call in progress
NoteIdle ==
  /\ noteArg = Undefined
  /\ noteResult = NoNoteResult

\* no modulo97 call in progress
ModIdle ==
  /\ mod97Str = <<>>
  /\ mod97Pos = 0
  /\ mod97Rem = 0

\* no data mapping being built
MappingIdle ==
  /\ mappingCall = NoMappingCall
  /\ mappingResult = NoMappingResult

Init ==
  /\ scenario \in Scenarios
  /\ \E n \in 1 .. MaxRows : sheet \in [1 .. n -> RowKinds]
  /\ realizationData = <<>>
  /\ run = 0
  /\ pc = "idle"
  /\ recipientIndex = 1
  /\ planIndex = 1
  /\ errorMessage = ""
  /\ inlineImages = {}
  /\ fetched = <<>>
  /\ calls = [p \in Pairs |-> NoCalls]
  /\ prevCalls = [p \in Pairs |-> NoCalls]
  /\ IbanIdle
  /\ QrIdle
  /\ TemplateIdle
  /\ FioIdle
  /\ NoteIdle
  /\ ModIdle
  /\ MappingIdle

Next ==
  \/ StartRun
  \/ ThrowColumnsNotFound
  \/ SkipPair
  \/ EnterPair
  \/ FetchTemplate
  \/ ResolveQr
  \/ FillTemplate
  \/ InlineImages
  \/ Dispatch
  \/ RecordSent
  \/ WriteFailure

Spec == Init /\ [][Next]_vars

\* the merge driver at rest, for the specifications of the pure functions
MergeIdle ==
  /\ scenario \in {sc \in Scenarios : sc.drafts = {"T2"}}
  /\ sheet = <<>>
  /\ realizationData = <<>>
  /\ run = 0
  /\ pc = "idle"
  /\ recipientIndex = 1
  /\ planIndex = 1
  /\ errorMessage = ""
  /\ inlineImages = {}
  /\ fetched = <<>>
  /\ calls = <<>>
  /\ prevCalls = <<>>

InitIban ==
  /\ MergeIdle
  /\ QrIdle
  /\ TemplateIdle
  /\ FioIdle
  /\ NoteIdle
  /\ ModIdle
  /\ MappingIdle
  /\ ibanArgs \in [accountNumber : AccountArgs, bankCode : BankArgs,
                    prefix : PrefixArgs]
  /\ ibanResult = NoIbanResult

NextIban == CallConvertToIBAN

SpecIban == InitIban /\ [][NextIban]_vars

InitQr ==
  /\ MergeIdle
  /\ IbanIdle
  /\ TemplateIdle
  /\ FioIdle
  /\ NoteIdle
  /\ ModIdle
  /\ MappingIdle
  /\ qrArgs \in [accountNumber : QrAccountArgs, bankCode : QrBankArgs,
                  currency : QrCurrencyArgs, amount : QrAmountArgs,
                  variableSymbol : QrSymbolArgs, message : QrMessageArgs]
  /\ qrResult = NoQrResult

NextQr == CallGeneratePaymentQrData

SpecQr == InitQr /\ [][NextQr]_vars

InitTemplate ==
  /\ MergeIdle
  /\ IbanIdle
  /\ QrIdle
  /\ FioIdle
  /\ NoteIdle
  /\ ModIdle
  /\ MappingIdle
  /\ template \in [subject : FieldsUpTo(MaxPieces), text : TextFields,
                    html : HtmlFields]
  /\ templateData \in DataMappings
  /\ msgObj = NoMsgObj

NextTemplate == CallFillInTemplate

SpecTemplate == InitTemplate /\ [][NextTemplate]_vars

\* a row logged by an earlier version, without the last three columns
EarlierRow ==
  [kind |-> "transaction", width |-> HeaderWidth - 3, message |-> KeyOne,
   variableSymbol |-> <<"1", "2", "3", "4">>, parsedKeys |-> <<>>,
   keysCount |-> 0, transactionId |-> 0]

\* a row under the narrower header with a cell in the twelfth column, such
\* as a remark typed beside the log
WideRow == [EarlierRow EXCEPT !.width = HeaderWidth]

\* the sheet before the first invocation: missing, empty, or holding the
\* narrower header row of an earlier version, alone or with a row under it
InitFio ==
  /\ MergeIdle
  /\ IbanIdle
  /\ QrIdle
  /\ TemplateIdle
  /\ NoteIdle
  /\ ModIdle
  /\ MappingIdle
  /\ variant \in {"cursor", "dedup"}
  /\ fioSheet \in {[exists |-> FALSE, rows |-> <<>>],
                    [exists |-> TRUE, rows |-> <<>>],
                    [exists |-> TRUE, rows |-> <<HeaderRow(HeaderWidth - 3)>>],
                    [exists |-> TRUE,
                     rows |-> <<HeaderRow(HeaderWidth - 3), EarlierRow>>],
                    [exists |-> TRUE,
                     rows |-> <<HeaderRow(HeaderWidth - 3), WideRow>>]}
  /\ fioRuns = 0
  /\ transactionsData = NoResponse
  /\ existingData = <<>>

NextFio ==
  \/ WriteTransactionsCursor
  \/ WriteTransactionsDedup

SpecFio == InitFio /\ [][NextFio]_vars

InitNote ==
  /\ MergeIdle
  /\ IbanIdle
  /\ QrIdle
  /\ TemplateIdle
  /\ FioIdle
  /\ noteArg \in {Undefined, Null} \cup {JsString(note) : note \in NotesUpTo(MaxNotePieces)}
  /\ noteResult = NoNoteResult
  /\ ModIdle
  /\ MappingIdle

NextNote == CallParseTransactionNote

SpecNote == InitNote /\ [][NextNote]_vars

InitMod97 ==
  /\ MergeIdle
  /\ IbanIdle
  /\ QrIdle
  /\ TemplateIdle
  /\ FioIdle
  /\ NoteIdle
  /\ MappingIdle
  /\ mod97Str \in DigitStringsUpTo(MaxDigits)
  /\ mod97Pos = 0
  /\ mod97Rem = 0

NextMod97 == Modulo97Step

SpecMod97 == InitMod97 /\ [][NextMod97]_vars

InitMapping ==
  /\ MergeIdle
  /\ IbanIdle
  /\ QrIdle
  /\ TemplateIdle
  /\ FioIdle
  /\ NoteIdle
  /\ ModIdle
  /\ mappingCall \in {c \in MappingCalls : c.index <= Len(c.data)}
  /\ mappingResult = NoMappingResult

NextMapping == CallFillArgument

SpecMapping == InitMapping /\ [][NextMapping]_vars

\* ------------------------------------------------------- claim vocabulary
\* p comes before q in the iteration order of the two forEach loops
Precedes(p, q) == p[1] < q[1] \/ (p[1] = q[1] /\ p[2] < q[2])

\* the run in progress is through with pair p
Completed(p) ==
  /\ run >= 1
  /\ \/ pc = "idle"
     \/ pc # "idle" /\ Precedes(p, pair)

ColumnsPresent(p) ==
  /\ IndexOf(realizationHeaders, planData[p[2]].conditionColumn) # 0
  /\ IndexOf(realizationHeaders, planData[p[2]].sentColumn) # 0

\* the values the run in progress read for pair p
ConditionRead(p) ==
  realizationData[p[1]][IndexOf(realizationHeaders, planData[p[2]].conditionColumn)]

StatusRead(p) ==
  realizationData[p[1]][IndexOf(realizationHeaders, planData[p[2]].sentColumn)]

\* the topic of pair p has a QR code with both variable-symbol fields set
HasBothSymbols(p) ==
  \E n \in DOMAIN qrCodesOf(planData[p[2]].emailTopic) :
    LET q == qrCodesOf(planData[p[2]].emailTopic)[n]
    IN q.variableSymbol # Blank /\ q.variableSymbolColumn # Blank

OnlyOneMessage ==
  "Only one of variableSymbol or variableSymbolColumn should be non-empty."

\* ------------------------------------------------------------------ claims

\* C1: over two consecutive runs with the table untouched in between, a pair
\* whose condition value is 1 and that was dispatched in the run before is
\* not dispatched again in the run in progress.
C1_DispatchedAtMostOnce ==
  run >= 2 =>
    \A p \in Pairs :
      (ColumnsPresent(p) /\ ConditionRead(p) = Num(1) /\ prevCalls[p].send > 0)
        => calls[p].send = 0 /\ ~calls[p].entered

C1_Witness ==
  /\ run = 2
  /\ pc = "idle"
  /\ \E p \in Pairs :
       /\ ColumnsPresent(p)
       /\ ConditionRead(p) = Num(1)
       /\ prevCalls[p].sendOk
       /\ calls[p].send = 0

\* C2: a pair is processed exactly when (condition = 1 and status blank) or
\* condition = 2, on the values read; for any other pair nothing is fetched,
\* rendered, dispatched or written, and the step that passes it over leaves
\* the sheet as it is.
C2_EntryState ==
  \A p \in Pairs :
    /\ calls[p].entered =>
         /\ ColumnsPresent(p)
         /\ \/ ConditionRead(p) = Num(1) /\ StatusRead(p) = Blank
            \/ ConditionRead(p) = Num(2)
    /\ (Completed(p) /\ ~calls[p].entered) =>
         /\ calls[p] = NoCalls
         /\ ~(ConditionRead(p) = Num(1) /\ StatusRead(p) = Blank)
         /\ ConditionRead(p) # Num(2)

C2_PassedOverUntouched ==
  (/\ pc = "eval"
   /\ ColumnsPresent(pair)
   /\ ~(\/ ConditionRead(pair) = Num(1) /\ StatusRead(pair) = Blank
        \/ ConditionRead(pair) = Num(2)))
    => /\ sheet' = sheet
       /\ calls' = calls
       /\ pc' \in {"eval", "idle"}

C2_EntryCondition == []C2_EntryState /\ [][C2_PassedOverUntouched]_vars

C2_Witness ==
  /\ run >= 1
  /\ pc = "idle"
  /\ \E p, q \in Pairs :
       /\ calls[p].entered /\ ConditionRead(p) = Num(2) /\ StatusRead(p) # Blank
       /\ ~calls[q].entered /\ ConditionRead(q) = Num(1) /\ StatusRead(q) # Blank

\* C3: once a stage of a pair has failed, every later pair is still
\* evaluated and the run ends normally: no run in which a stage failed ends
\* by an exception.
C3_FailureNeverEndsRun ==
  pc = "aborted" => \A p \in Pairs : calls[p].failed = ""

\* the part of C3 that the catch blocks do provide: the step that handles a
\* stage failure goes on to the next pair in iteration order.
C3_CatchContinues ==
  [][pc = "catch" =>
       \/ pc' = "eval" /\ Precedes(pair, pair') /\
          (\A q \in Pairs : ~(Precedes(pair, q) /\ Precedes(q, pair')))
       \/ pc' = "idle" /\ (\A q \in Pairs : ~Precedes(pair, q))]_vars

\* C4: a failed stage puts a non-blank failure value into the status cell of
\* its pair in the very step that handles it, so that no pair other than the
\* one being handled ever has a failure that is not written yet.
C4_FailureState ==
  \A p \in Pairs :
    calls[p].failed # "" =>
      \/ p = pair /\ pc = "catch"
      \/ /\ Len(calls[p].wrote) = 1
         /\ calls[p].wrote[1].k = "failed"
         /\ calls[p].wrote[1].s # ""

C4_CatchWrites ==
  pc = "catch" =>
    /\ sheet'[recipientIndex][sentColIdx] = FailedAt(errorMessage, run)
    /\ sheet'[recipientIndex][sentColIdx] # Blank
    /\ errorMessage # ""

C4_FailureWrittenFirst == []C4_FailureState /\ [][C4_CatchWrites]_vars

C4_Witness ==
  /\ pc = "template"
  /\ \E p \in Pairs :
       /\ Precedes(p, pair)
       /\ calls[p].failed = "send"
       /\ sheet[p[1]][IndexOf(realizationHeaders, planData[p[2]].sentColumn)].k = "failed"

\* C5: a pair's status cell receives a success timestamp exactly when the
\* dispatch call of that pair returned in this run, and a failure value is
\* written only for a pair without a successful dispatch.
C5_SentState ==
  \A p \in Pairs :
    /\ (\E n \in DOMAIN calls[p].wrote : calls[p].wrote[n].k = "sent")
         => calls[p].sendOk
    /\ (\E n \in DOMAIN calls[p].wrote : calls[p].wrote[n].k = "failed")
         => ~calls[p].sendOk
    /\ (calls[p].sendOk /\ ~(p = pair /\ pc = "record"))
         => calls[p].wrote = <<SentAt(run)>>

C5_WriteStep ==
  sheet' # sheet =>
    /\ (sheet'[recipientIndex][sentColIdx].k = "sent") <=> calls[pair].sendOk
    /\ (sheet'[recipientIndex][sentColIdx].k = "failed") <=> ~calls[pair].sendOk

C5_SentIffDispatched == []C5_SentState /\ [][C5_WriteStep]_vars

C5_Witness ==
  /\ pc = "idle"
  /\ \E p, q \in Pairs :
       /\ calls[p].sendOk /\ calls[p].wrote = <<SentAt(run)>>
       /\ calls[q].send = 1 /\ ~calls[q].sendOk /\ calls[q].wrote[1].k = "failed"

\* C6: a configuration error (a rule naming an absent column, or a QR code
\* with both variable-symbol fields set) stops the run with no message
\* dispatched and no status cell written in that run.
C6_ConfigErrorWritesNothing ==
  (\/ pc = "aborted"
   \/ run >= 1 /\ \E p \in Pairs : HasBothSymbols(p) /\ calls[p].entered)
    => \A p \in Pairs : calls[p].send = 0 /\ calls[p].wrote = <<>>

\* C7: a QR code with both variableSymbol and variableSymbolColumn set makes
\* the resolution of its pair fail, and no render call is made for the pair.
C7_BothSymbolsNoRender ==
  \A p \in Pairs :
    HasBothSymbols(p) =>
      /\ calls[p].render = 0
      /\ calls[p].send = 0
      /\ (p = pair => pc \notin {"fill", "inline", "send", "record"})
      /\ (Completed(p) /\ calls[p].fetch = 1 /\ calls[p].failed # "template")
           => calls[p].wrote = <<FailedAt(OnlyOneMessage, run)>>

C7_Witness ==
  \E p \in Pairs :
    /\ HasBothSymbols(p)
    /\ Completed(p)
    /\ calls[p].failed = "qr"
    /\ calls[p].wrote = <<FailedAt(OnlyOneMessage, run)>>
    /\ calls[p].render = 0

\* C8: a run changes no cell but the status cells of the pairs it processed,
\* and writes exactly one value for each processed pair.
C8_OnlyStatusCells ==
  run >= 1 =>
    /\ \A r \in DOMAIN sheet : \A c \in DOMAIN realizationHeaders :
         sheet[r][c] # realizationData[r][c] =>
           \E j \in DOMAIN planData :
             /\ calls[<<r, j>>].entered
             /\ calls[<<r, j>>].wrote # <<>>
             /\ IndexOf(realizationHeaders, planData[j].sentColumn) = c
    /\ \A p \in Pairs :
         /\ Len(calls[p].wrote) <= 1
         /\ (Completed(p) /\ calls[p].entered) => Len(calls[p].wrote) = 1
         /\ ~calls[p].entered => calls[p].wrote = <<>>

C8_WriteStep ==
  sheet' # sheet =>
    /\ calls[pair].entered
    /\ \A r \in DOMAIN sheet : \A c \in DOMAIN realizationHeaders :
         sheet'[r][c] # sheet[r][c] => r = recipientIndex /\ c = sentColIdx

C8_OneStatusWrite == []C8_OnlyStatusCells /\ [][C8_WriteStep]_vars

C8_Witness ==
  /\ pc = "idle"
  /\ run >= 1
  /\ \E p, q \in Pairs :
       /\ p # q
       /\ calls[p].entered /\ calls[q].entered
       /\ planData[p[2]].sentColumn = planData[q[2]].sentColumn
       /\ p[1] = q[1]
       /\ Len(calls[p].wrote) = 1 /\ Len(calls[q].wrote) = 1

\* the ISO 7064 validation of a formatted IBAN: spaces removed, the first
\* four characters moved to the end, C read as 12 and Z as 35, the decimal
\* number taken modulo 97
Pow10Mod97(k) == IF k = 0 THEN 1 ELSE (10 ^ (k % 6) * (27 ^ (k \div 6) % 97)) % 97

LetterDigits(ch) ==
  IF ch = "C" THEN <<"1", "2">> ELSE IF ch = "Z" THEN <<"3", "5">> ELSE <<ch>>

RECURSIVE Flatten(_)
Flatten(seqs) == IF seqs = <<>> THEN <<>> ELSE Head(seqs) \o Flatten(Tail(seqs))

IbanAsNumber(iban) ==
  LET plain == SelectSeq(iban, LAMBDA ch : ch # " ")
      moved == SubSeq(plain, 5, Len(plain)) \o SubSeq(plain, 1, 4)
  IN Flatten([n \in DOMAIN moved |-> LetterDigits(moved[n])])

RECURSIVE SumMod97(_, _)
SumMod97(digits, n) ==
  IF n > Len(digits) THEN 0
  ELSE (parseInt(digits[n]) * Pow10Mod97(Len(digits) - n) + SumMod97(digits, n + 1)) % 97

\* C9: every identifier convertToIBAN returns passes the mod-97 validation.
C9_Mod97Valid ==
  (ibanResult # NoIbanResult /\ ~ibanResult.threw)
    => SumMod97(IbanAsNumber(ibanResult.value), 1) = 1

\* C10: account "123456789", routing "0800", prefix "19" give check digits
\* 65 and "CZ65 0800 0000 1900 1234 5678".
C10_Example ==
  (/\ ibanArgs = [accountNumber |-> JsString(ExampleAccount),
                  bankCode |-> JsString(<<"0", "8", "0", "0">>),
                  prefix |-> JsString(<<"1", "9">>)]
   /\ ibanResult # NoIbanResult)
    => /\ ~ibanResult.threw
       /\ SubSeq(ibanResult.value, 3, 4) = <<"6", "5">>
       /\ ibanResult.value =
            <<"C", "Z", "6", "5", " ", "0", "8", "0", "0", " ", "0", "0", "0", "0", " ",
              "1", "9", "0", "0", " ", "1", "2", "3", "4", " ", "5", "6", "7", "8">>

\* C11: whenever convertToIBAN returns, the result is 24 identifier
\* characters (CZ, 2 check digits, a 20-digit BBAN) in six groups of 4
\* separated by single spaces.
C11_TwentyFourCharacters ==
  (ibanResult # NoIbanResult /\ ~ibanResult.threw)
    => /\ Len(ibanResult.value) = 29
       /\ \A n \in 1 .. 29 :
            IF n % 5 = 0 THEN ibanResult.value[n] = " "
            ELSE IF n <= 2 THEN ibanResult.value[n] = countryCode[n]
            ELSE IsDigit(ibanResult.value[n])

\* the argument is null, undefined, or has no digit left after stripping
AbsentArgument(arg) ==
  arg.t \in {"undefined", "null"} \/ SelectSeq(arg.d, IsDigit) = <<>>

\* C12: convertToIBAN raises whenever the account number or the routing code
\* is null, undefined or empty after stripping, and returns nothing then.
C12_AbsentArgumentRaises ==
  (/\ ibanResult # NoIbanResult
   /\ \/ AbsentArgument(ibanArgs.accountNumber)
      \/ AbsentArgument(ibanArgs.bankCode))
    => ibanResult.threw /\ ibanResult.value = <<>>

\* the argument holds a value that is not the empty string
NonEmpty(arg) == arg.t \notin {"undefined", "null"} /\ arg.d # <<>>

\* C13: the payload is SPD*1.0, then ACC with the convertToIBAN identifier,
\* AM with 2 decimals, CC, then VS and MSG, each present exactly when the
\* variable symbol, respectively the message, is non-empty.
C13_PayloadFields ==
  (qrResult # NoQrResult /\ ~qrResult.threw)
    => qrResult.value =
         SpdHeader
           \o AccTag \o convertToIBAN(qrArgs.accountNumber, qrArgs.bankCode,
                                      JsString(<<>>)).value
           \o AmTag \o toFixed2(qrArgs.amount.d)
           \o CcTag \o qrArgs.currency.d
           \o (IF NonEmpty(qrArgs.variableSymbol)
               THEN VsTag \o qrArgs.variableSymbol.d ELSE <<>>)
           \o (IF NonEmpty(qrArgs.message)
               THEN MsgTag \o qrArgs.message.d ELSE <<>>)

\* C13 (amended): the same, with VS and MSG present exactly when the variable
\* symbol, respectively the message, is true in JavaScript: neither absent,
\* nor the empty string, nor the number 0.
C13_PayloadFieldsTruthy ==
  (qrResult # NoQrResult /\ ~qrResult.threw)
    => qrResult.value =
         SpdHeader
           \o AccTag \o convertToIBAN(qrArgs.accountNumber, qrArgs.bankCode,
                                      JsString(<<>>)).value
           \o AmTag \o toFixed2(qrArgs.amount.d)
           \o CcTag \o qrArgs.currency.d
           \o (IF JsTruthy(qrArgs.variableSymbol)
               THEN VsTag \o qrArgs.variableSymbol.d ELSE <<>>)
           \o (IF JsTruthy(qrArgs.message)
               THEN MsgTag \o qrArgs.message.d ELSE <<>>)

\* a payload returned for the variable symbol 0 and a message
C13_Witness ==
  /\ qrResult # NoQrResult
  /\ ~qrResult.threw
  /\ qrArgs.variableSymbol = JsNumber(<<"0">>)
  /\ qrArgs.message = JsString(<<"f", "e", "e">>)
  /\ qrArgs.amount = JsNumber(<<"1", "2", ".", "5">>)

\* ------------------------------------------ claims on fillInTemplateFromObject_
\* the keys of the {{key}} occurrences of a field from position i on
RECURSIVE KeysOf(_, _)
KeysOf(field, i) ==
  IF i > Len(field) THEN {}
  ELSE LET e == MatchEnd(field, i)
       IN IF e = 0 THEN KeysOf(field, i + 1)
          ELSE {SubSeq(field, i + 2, e - 2)} \cup KeysOf(field, e + 1)

\* the keys of the {{key}} occurrences of subject, text and html
TemplateKeys ==
  KeysOf(template.subject, 1) \cup KeysOf(template.text, 1)
    \cup KeysOf(template.html, 1)

\* the field with every {{key}} occurrence replaced as the specification says:
\* by the string form of data[key], by the empty string if the key is absent
RECURSIVE Specified(_, _, _)
Specified(field, mapping, i) ==
  IF i > Len(field) THEN <<>>
  ELSE LET e == MatchEnd(field, i)
           key == SubSeq(field, i + 2, e - 2)
       IN IF e = 0 THEN <<field[i]>> \o Specified(field, mapping, i + 1)
          ELSE (IF key \in DOMAIN mapping THEN mapping[key].d ELSE <<>>)
                 \o Specified(field, mapping, e + 1)

\* the call returned the triplet that the specification describes
FilledAsSpecified ==
  /\ ~msgObj.threw
  /\ msgObj.value.subject = JsString(Specified(template.subject, templateData, 1))
  /\ msgObj.value.text = JsString(Specified(template.text, templateData, 1))
  /\ msgObj.value.html = JsString(Specified(template.html, templateData, 1))

\* every brace of the field belongs to a {{key}} occurrence
RECURSIVE OnlyPlaceholderBraces(_, _)
OnlyPlaceholderBraces(field, i) ==
  IF i > Len(field) THEN TRUE
  ELSE LET e == MatchEnd(field, i)
       IN IF e = 0 THEN ~IsBrace(field[i]) /\ OnlyPlaceholderBraces(field, i + 1)
          ELSE OnlyPlaceholderBraces(field, e + 1)

\* no field of the template has a brace outside its {{key}} occurrences
PlainTemplate ==
  /\ OnlyPlaceholderBraces(template.subject, 1)
  /\ OnlyPlaceholderBraces(template.text, 1)
  /\ OnlyPlaceholderBraces(template.html, 1)

\* C14: a template whose placeholders all have keys absent from the data
\* mapping is filled without failure, every {{key}} occurrence in subject, text
\* and html replaced by the empty string, keys compared exactly (stated for
\* the templates that have no brace outside their placeholders).
C14_AbsentKeyEmpty ==
  (/\ msgObj # NoMsgObj
   /\ PlainTemplate
   /\ TemplateKeys # {}
   /\ TemplateKeys \cap DOMAIN templateData = {})
    => FilledAsSpecified

\* C15: a template whose placeholders all have keys present in the data mapping
\* is filled with the string form of data[key] at every {{key}} occurrence,
\* whatever the value (0, false and the empty string included; stated for the
\* templates that have no brace outside their placeholders).
C15_PresentKeyStringForm ==
  (/\ msgObj # NoMsgObj
   /\ PlainTemplate
   /\ TemplateKeys # {}
   /\ TemplateKeys \subseteq DOMAIN templateData)
    => FilledAsSpecified

\* the text holds a {{key}} token
HasToken(str) == \E i \in 1 .. Len(str) : MatchEnd(str, i) # 0

\* no field of the result holds a {{key}} token
NoTokenLeft ==
  \A field \in {msgObj.value.subject, msgObj.value.text, msgObj.value.html} :
    ~HasToken(field.d)

\* C16: after the fill no field of the result contains a literal {{key}}
\* token, for every template and every data mapping.
C16_NoTokenLeft ==
  (msgObj # NoMsgObj /\ ~msgObj.threw) => NoTokenLeft

\* C16 (amended): after the fill no field of the result contains a literal
\* {{key}} token, when every brace of the template belongs to a {{key}}
\* placeholder and no value of the data mapping contains a brace.
C16_NoTokenLeftPlain ==
  (/\ msgObj # NoMsgObj
   /\ PlainTemplate
   /\ \A key \in DOMAIN templateData :
        \A n \in 1 .. Len(templateData[key].d) : ~IsBrace(templateData[key].d[n]))
    => ~msgObj.threw /\ NoTokenLeft

\* a template with two occurrences of a placeholder in one field, filled with
\* a value
C16_Witness ==
  /\ msgObj # NoMsgObj
  /\ PlainTemplate
  /\ template.text = TokenA \o <<" ">> \o TokenA
  /\ <<"a">> \in DOMAIN templateData
  /\ templateData[<<"a">>] = JsString(<<"v">>)
  /\ msgObj.value.text = JsString(<<"v", " ", "v">>)

\* C17: for string values built from ordinary characters, backslash, double
\* quote, slash and \b \f \n \r \t, the fill returns a subject/text/html
\* triplet with every placeholder replaced by exactly the original value.
C17_RoundTrip ==
  (/\ msgObj # NoMsgObj
   /\ TemplateKeys # {}
   /\ TemplateKeys \subseteq DOMAIN templateData
   /\ \A key \in DOMAIN templateData : templateData[key].t = "string")
    => FilledAsSpecified

\* the same for the templates that have no brace outside their placeholders
C17_RoundTripPlain ==
  PlainTemplate => C17_RoundTrip

\* --------------------------------------------------- claims on the Fio log
\* the last invocation fetched a list and went on to write to the sheet
WroteList ==
  /\ fioSheet.exists
  /\ transactionsData.kind = "list"
  /\ variant = "cursor" => transactionsData.transaction # <<>>

\* the rows the last invocation appended after the header check
AppendedRows ==
  SubSeq(fioSheet.rows, Len(WithHeaders(existingData)) + 1, Len(fioSheet.rows))

\* C18: no two rows of the log carry the same non-empty transaction ID.
C18_NoDuplicateIds ==
  \A i, j \in 1 .. Len(fioSheet.rows) :
    (i < j /\ fioSheet.rows[i].transactionId # 0)
      => fioSheet.rows[i].transactionId # fioSheet.rows[j].transactionId

\* C19: in the version that relies on the cursor, an invocation that fetches n
\* transactions leaves the rows it found (after the header check) and appends
\* exactly n rows, the i-th one for the i-th transaction, logged ID or not.
C19_OneRowPerTransaction ==
  (variant = "cursor" /\ WroteList)
    => LET transactions == transactionsData.transaction
       IN /\ Len(fioSheet.rows) = Len(WithHeaders(existingData)) + Len(transactions)
          /\ SubSeq(fioSheet.rows, 1, Len(WithHeaders(existingData)))
               = WithHeaders(existingData)
          /\ \A i \in 1 .. Len(transactions) :
               /\ AppendedRows[i].kind = "transaction"
               /\ AppendedRows[i].transactionId = transactions[i].id
               /\ AppendedRows[i].message = transactions[i].message
               /\ AppendedRows[i].variableSymbol = transactions[i].variableSymbol

\* a second invocation that fetched a transaction whose ID the log already held
C19_Witness ==
  /\ variant = "cursor"
  /\ WroteList
  /\ fioRuns = 2
  /\ \E n \in 1 .. Len(existingData) :
       /\ existingData[n].transactionId # 0
       /\ existingData[n].transactionId = transactionsData.transaction[1].id
  /\ Len(fioSheet.rows) = Len(existingData) + Len(transactionsData.transaction)

\* the row the specification describes for a transaction: keys parsed from the
\* note only when the variable symbol is the configured key
ExpectedRow(transaction) ==
  TransactionRow(transaction,
                 IF transaction.variableSymbol = VARIABLE_SYMBOL_KEY
                 THEN parseTransactionNote(transaction.message)
                 ELSE [keys |-> <<>>, count |-> 0])

\* the transactions of the last response that the ID check lets through
IngestedTransactions ==
  SelectSeq(transactionsData.transaction,
            LAMBDA t : \/ variant = "cursor"
                       \/ t.id = 0
                       \/ t.id \notin ExistingTransactionIds(existingData))

\* C20: every ingested transaction gets a row, with the keys parsed from the
\* note when its variable symbol is the configured key, and with empty keys and
\* count 0 otherwise.
C20_RowForEveryTransaction ==
  WroteList
    => AppendedRows = [i \in 1 .. Len(IngestedTransactions) |->
                         ExpectedRow(IngestedTransactions[i])]

\* C20 (amended): the same in the version that relies on the cursor; the
\* version with the ID set appends a row only for the ingested transactions
\* whose variable symbol is the configured key.
C20_RowForEveryTransactionCursor ==
  WroteList
    => LET logged ==
             IF variant = "cursor" THEN IngestedTransactions
             ELSE SelectSeq(IngestedTransactions,
                            LAMBDA t : t.variableSymbol = VARIABLE_SYMBOL_KEY)
       IN AppendedRows = [i \in 1 .. Len(logged) |-> ExpectedRow(logged[i])]

\* the cursor version logged a transaction of another variable symbol whose
\* note holds an 8-digit run, with empty keys and count 0
C20_Witness ==
  /\ variant = "cursor"
  /\ WroteList
  /\ \E i \in 1 .. Len(AppendedRows) :
       /\ AppendedRows[i].variableSymbol # VARIABLE_SYMBOL_KEY
       /\ parseTransactionNote(AppendedRows[i].message).count > 0
       /\ AppendedRows[i].parsedKeys = <<>>
       /\ AppendedRows[i].keysCount = 0

\* ------------------------------------------- claims on parseTransactionNote
\* position i starts a maximal run of digits of the note that is 8 digits long
KeyAt(note, i) ==
  /\ i + KeyLength - 1 <= Len(note)
  /\ \A n \in i .. i + KeyLength - 1 : IsDigit(note[n])
  /\ i > 1 => ~IsDigit(note[i - 1])
  /\ i + KeyLength <= Len(note) => ~IsDigit(note[i + KeyLength])

\* the 8-digit maximal runs from position i on, in order of appearance
RECURSIVE KeysFrom(_, _)
KeysFrom(note, i) ==
  IF i > Len(note) THEN <<>>
  ELSE IF KeyAt(note, i)
  THEN <<SubSeq(note, i, i + KeyLength - 1)>> \o KeysFrom(note, i + 1)
  ELSE KeysFrom(note, i + 1)

\* C21: the keys are exactly the maximal digit runs of the note that are 8
\* digits long, in order of appearance (joined by commas), and count is their
\* number; an empty or undefined note gives no keys and count 0.
C21_MaximalEightDigitRuns ==
  noteResult # NoNoteResult
    => /\ noteResult.keys = Join(KeysFrom(noteArg.d, 1), ",")
       /\ noteResult.count = Len(KeysFrom(noteArg.d, 1))
       /\ noteArg.d = <<>> => (noteResult.keys = <<>> /\ noteResult.count = 0)

\* the note "REF 12345678 end" parsed to the single key 12345678
C21_Witness ==
  /\ noteArg = JsString(<<"R", "E", "F", " ">> \o KeyOne \o <<" ", "e", "n", "d">>)
  /\ noteResult = [keys |-> KeyOne, count |-> 1]

\* C22: an invocation of writeTransactionsToSheet leaves every transaction row
\* of the log where it was and as it was.
C22_RowsKept ==
  [][\A n \in 1 .. Len(fioSheet.rows) :
       fioSheet.rows[n].kind = "transaction"
         => /\ n <= Len(fioSheet'.rows)
            /\ fioSheet'.rows[n] = fioSheet.rows[n]]_vars

\* the first invocation on a sheet that held the narrower header and a row:
\* the header is rewritten, the row stays, rows are appended
C22_Witness ==
  /\ fioRuns = 1
  /\ existingData = <<HeaderRow(HeaderWidth - 3), EarlierRow>>
  /\ fioSheet.rows[1] = HeaderRow(HeaderWidth)
  /\ fioSheet.rows[2] = EarlierRow
  /\ Len(fioSheet.rows) > 2

\* a second invocation appended rows to a log that already held a
\* transaction row
C22_WitnessSecondRun ==
  /\ fioRuns = 2
  /\ \E n \in 1 .. Len(existingData) : existingData[n].kind = "transaction"
  /\ Len(fioSheet.rows) > Len(existingData)
  /\ SubSeq(fioSheet.rows, 1, Len(existingData)) = existingData

\* ------------------------------------------- claims on the pipeline of a pair
\* the QR codes of the topic of pair p
SpecsOf(p) == qrCodesOf(planData[p[2]].emailTopic)

\* the run in progress is through with pair p and with no pair after it: the
\* fetch outcomes in the state are those of p
Latest(p) == Completed(p) /\ \A q \in Pairs : Completed(q) => ~Precedes(p, q)

\* the outcomes of the render fetches hold one that is not a 200 response
NullRender(n) == n \in DOMAIN fetched /\ fetched[n] # "200"

\* C23: when the fetch of a render call raises or answers with a code other
\* than 200, generateQrCodeBlob returns null and raises nothing: no image is
\* registered for that QR code, the inlining stage does not fail and the
\* pair goes on to the dispatch call.
C23_RenderFailureNotFatal ==
  \A n \in DOMAIN fetched :
    (NullRender(n) /\ pc \in {"send", "record", "catch"}) =>
      /\ SpecsOf(pair)[n].imageName \notin inlineImages
      /\ calls[pair].failed # "inline"
      /\ pc = "send" \/ calls[pair].send = 1

C23_Witness ==
  /\ pc = "record"
  /\ NullRender(1)
  /\ inlineImages = {}
  /\ calls[pair].sendOk

\* the column a QR code takes its variable symbol from is not a header
MissingColumn(q) ==
  /\ q.variableSymbol = Blank
  /\ q.variableSymbolColumn # Blank
  /\ IndexOf(realizationHeaders, q.variableSymbolColumn.s) = 0

ColumnNotFound(q) ==
  "Column " \o q.variableSymbolColumn.s \o " not found in realization data headers."

\* C24: a QR code with an empty variableSymbol whose variableSymbolColumn is
\* not among the headers makes the QR resolution of its pair fail with the
\* column-not-found error: the status cell of the pair receives that failure
\* value, and neither a render call nor a dispatch call is made for the pair.
C24_MissingColumnFails ==
  \A p \in Pairs :
    (\E n \in DOMAIN SpecsOf(p) : MissingColumn(SpecsOf(p)[n]) /\ ~HasBothSymbols(p)) =>
      /\ calls[p].render = 0
      /\ calls[p].send = 0
      /\ (p = pair => pc \notin {"fill", "inline", "send", "record"})
      /\ (Completed(p) /\ calls[p].fetch = 1 /\ calls[p].failed # "template")
           => /\ calls[p].failed = "qr"
              /\ \E n \in DOMAIN SpecsOf(p) :
                   /\ MissingColumn(SpecsOf(p)[n])
                   /\ calls[p].wrote = <<FailedAt(ColumnNotFound(SpecsOf(p)[n]), run)>>

C24_Witness ==
  \E p \in Pairs :
    /\ Completed(p)
    /\ calls[p].failed = "qr"
    /\ calls[p].wrote = <<FailedAt(ColumnNotFound(QrNoColumn), run)>>
    /\ sheet[p[1]][IndexOf(realizationHeaders, planData[p[2]].sentColumn)].k = "failed"
    /\ calls[p].send = 0

\* C25: a pair whose status cell holds a failure value and whose condition is
\* 1 is not attempted by a run that reads this status; a pair that a run
\* attempts has the condition 2 or a blank status cell.
C25_FailedNotRetried ==
  run >= 1 =>
    \A p \in Pairs :
      ColumnsPresent(p) =>
        /\ (StatusRead(p).k = "failed" /\ ConditionRead(p) = Num(1))
             => ~calls[p].entered /\ calls[p].stages = <<>> /\ calls[p].send = 0
        /\ calls[p].entered
             => ConditionRead(p) = Num(2) \/ StatusRead(p) = Blank

C25_Witness ==
  /\ run = 2
  /\ pc = "idle"
  /\ \E p, q \in Pairs :
       /\ prevCalls[p].failed # "" /\ StatusRead(p).k = "failed"
       /\ ConditionRead(p) = Num(1) /\ ~calls[p].entered
       /\ prevCalls[q].failed # "" /\ StatusRead(q).k = "failed"
       /\ ConditionRead(q) = Num(2) /\ calls[q].entered

\* the stages of a pair in the order of the code
StageOrder == <<"template", "mapping", "qr", "fill", "inline", "send">>

\* C26: the stages of one pair run in the order template fetch, data mapping,
\* QR resolution, template fill, image inlining, dispatch; the dispatch call
\* is made only after all earlier stages succeeded; the stage that fails is
\* the last stage of its pair.
C26_StagesInOrder ==
  \A p \in Pairs :
    LET st == calls[p].stages
    IN /\ Len(st) <= Len(StageOrder)
       /\ st = SubSeq(StageOrder, 1, Len(st))
       /\ calls[p].send > 0 => st = StageOrder /\ calls[p].failed \in {"", "send"}
       /\ calls[p].failed # "" => st # <<>> /\ st[Len(st)] = calls[p].failed
       /\ (Completed(p) /\ calls[p].entered /\ calls[p].failed = "") => st = StageOrder

C26_Witness ==
  \E p, q, r \in Pairs :
    /\ Completed(p) /\ calls[p].stages = StageOrder /\ calls[p].sendOk
    /\ Completed(q) /\ calls[q].failed = "fill"
    /\ calls[q].stages = <<"template", "mapping", "qr", "fill">>
    /\ Completed(r) /\ calls[r].failed = "template"
    /\ calls[r].stages = <<"template">>

\* C27, as stated: when the fetch of a render call raised in the pipeline of
\* a pair, the value written to the status cell of the pair is a failure
\* value.
C27_NetworkFailureRecorded ==
  [][(\E n \in DOMAIN fetched : fetched[n] = "exception") /\ sheet' # sheet
       => sheet'[recipientIndex][sentColIdx].k = "failed"]_vars

\* C27, amended: a fetch of a render call that raised does not decide the
\* status of the pair: the dispatch call is made all the same, and the
\* status cell receives the success timestamp when that call returned and
\* the failure value of the dispatch when it threw.
C27_NetworkFailureSwallowed ==
  [][(\E n \in DOMAIN fetched : fetched[n] = "exception") /\ sheet' # sheet
       => /\ calls[pair].send = 1
          /\ calls[pair].sendOk
               => sheet'[recipientIndex][sentColIdx] = SentAt(run)
          /\ ~calls[pair].sendOk
               => /\ calls[pair].failed = "send"
                  /\ sheet'[recipientIndex][sentColIdx]
                       = FailedAt("Service invoked too many times", run)]_vars

C27_Witness ==
  \E p \in Pairs :
    /\ Latest(p)
    /\ calls[p].render = 1
    /\ calls[p].sendOk
    /\ calls[p].wrote = <<SentAt(run)>>
    /\ fetched = <<"exception">>
    /\ inlineImages = {}
    /\ sheet[p[1]][IndexOf(realizationHeaders, planData[p[2]].sentColumn)] = SentAt(run)

\* C28: in one run the dispatch call is made at most once for a pair, also
\* when that call throws.
C28_OneDispatchPerPair ==
  \A p \in Pairs :
    /\ calls[p].send <= 1
    /\ calls[p].failed = "send" => calls[p].send = 1 /\ ~calls[p].sendOk
    /\ (p = pair /\ pc = "send") => calls[p].send = 0

C28_Witness ==
  \E p \in Pairs :
    /\ Completed(p)
    /\ calls[p].failed = "send"
    /\ calls[p].send = 1
    /\ calls[p].wrote # <<>>

\* convertToIBAN raises on the identifier fields of a QR code
InvalidIdentifier(q) ==
  convertToIBAN(q.accountNumber, q.bankCode, JsString(<<>>)).threw

\* C29, as stated: when convertToIBAN raises on the identifier fields of a
\* QR code, the effect is that of a failed render: only that image is
\* left out, the message of the pair is dispatched and the status of the
\* pair is decided by the dispatch call.
C29_InvalidIdentifierOmitsImage ==
  \A p \in Pairs :
    (Completed(p) /\ calls[p].resolved # <<>> /\ calls[p].failed # "send"
       /\ \E n \in DOMAIN SpecsOf(p) : InvalidIdentifier(SpecsOf(p)[n]))
      => /\ calls[p].send = 1
         /\ calls[p].wrote = <<SentAt(run)>>

\* a QR code that takes its variable symbol from a column of the table
FromColumn(q) == q.variableSymbol = Blank /\ q.variableSymbolColumn # Blank

\* C30: when a QR code takes its variable symbol from a column, the symbol
\* resolved for a pair is the value of that column in the first data row of
\* the table, whichever recipient row the pair belongs to.
C30_SymbolOfFirstRow ==
  \A p \in Pairs :
    \A n \in DOMAIN calls[p].resolved :
      FromColumn(SpecsOf(p)[n]) =>
        calls[p].resolved[n]
          = realizationData[1][IndexOf(realizationHeaders,
                                       SpecsOf(p)[n].variableSymbolColumn.s)]

C30_Witness ==
  \E p \in Pairs :
    /\ p[1] = 2
    /\ Completed(p)
    /\ calls[p].sendOk
    /\ Len(calls[p].resolved) = 1
    /\ FromColumn(SpecsOf(p)[1])
    /\ calls[p].resolved = <<realizationData[1][recipientIdx]>>
    /\ realizationData[2][recipientIdx] # realizationData[1][recipientIdx]

SnapshotTest(p) ==
  \/ ConditionRead(p) = Num(1) /\ StatusRead(p) = Blank
  \/ ConditionRead(p) = Num(2)

\* C32: every entry decision of a run is taken on the values read at the
\* start of the run, whatever the sheet holds by then: two rules that share a
\* status column are both processed for a row that had condition 1 and a
\* blank status at the start.
C32_SharedColumnBothProcessed ==
  \A p, q \in Pairs :
    (/\ Completed(p) /\ Completed(q) /\ ColumnsPresent(p) /\ ColumnsPresent(q)
     /\ p[1] = q[1] /\ planData[p[2]].sentColumn = planData[q[2]].sentColumn
     /\ SnapshotTest(p) /\ SnapshotTest(q))
      => calls[p].entered /\ calls[q].entered

C32_DecisionOnSnapshot ==
  (pc = "eval" /\ ColumnsPresent(pair)) => (calls'[pair].entered <=> SnapshotTest(pair))

C32_SnapshotDecides == []C32_SharedColumnBothProcessed /\ [][C32_DecisionOnSnapshot]_vars

C32_Witness ==
  /\ pc = "template"
  /\ ConditionRead(pair) = Num(1)
  /\ StatusRead(pair) = Blank
  /\ sheet[recipientIndex][sentColIdx] # Blank
  /\ \E p \in Pairs :
       /\ p[1] = recipientIndex /\ Precedes(p, pair)
       /\ planData[p[2]].sentColumn = plan.sentColumn
       /\ calls[p].wrote # <<>>

\* C38: when the message of a pair has been dispatched, every image name
\* that its HTML body refers to as cid:<imageName> is registered as an inline
\* image of the dispatch call, also when the render of that QR code failed.
C38_ReferencesRegistered ==
  pc = "record" => CidReferences(plan.emailTopic) \subseteq inlineImages

\* ------------------------------------- further claims on parseTransactionNote
\* the tokens of exactly 8 characters among the space-separated tokens
EightDigitTokens(cleaned) ==
  SelectSeq(Split(cleaned, " ", <<>>), LAMBDA token : Len(token) = KeyLength)

\* the note without its characters that are neither digits nor spaces
NonDigitsDeleted(note) == SelectSeq(note, LAMBDA ch : IsDigit(ch) \/ ch = " ")

\* the note with a space in the place of every character that is no digit
NonDigitsSpaced(note) ==
  [n \in 1 .. Len(note) |-> IF IsDigit(note[n]) THEN note[n] ELSE " "]

\* C33, as stated: the keys are the tokens of exactly 8 digits among the
\* whitespace-separated tokens left after every non-digit character has been
\* deleted from the note, so that digits with only such characters between
\* them join into one token.
C33_TokensAfterDeleting ==
  noteResult # NoNoteResult
    => noteResult.keys = Join(EightDigitTokens(NonDigitsDeleted(noteArg.d)), ",")

\* C33, amended: the keys are the tokens of exactly 8 digits among the
\* space-separated tokens left after every non-digit character has been
\* replaced by a space, so that digits with any other character between them
\* never join into one token.
C33_TokensAfterSpacing ==
  noteResult # NoNoteResult
    => /\ noteResult.keys = Join(EightDigitTokens(NonDigitsSpaced(noteArg.d)), ",")
       /\ noteResult.count = Len(EightDigitTokens(NonDigitsSpaced(noteArg.d)))

\* the note "1234567-9": eight digits around a hyphen give no key
C33_Witness ==
  /\ noteArg = JsString(<<"1", "2", "3", "4", "5", "6", "7", "-", "9">>)
  /\ noteResult = [keys |-> <<>>, count |-> 0]

\* ------------------------------------------- further claims on the Fio log
\* C34: an invocation that appends a transaction row leaves the 12-column
\* header row as the first row of the log, whatever the log held before.
C34_HeaderBeforeRows ==
  [][Len(fioSheet'.rows) > Len(getValues(fioSheet.rows))
       => fioSheet'.rows[1] = HeaderRow(HeaderWidth)]_vars

\* C35: an invocation whose fetch failed or gave unparsable content (null),
\* or whose response has no transaction list, leaves the log as it was: no
\* header row and no transaction row is written.
C35_FailedFetchWritesNothing ==
  [][(fioRuns' = fioRuns + 1 /\ transactionsData'.kind \in {"null", "empty"})
       => fioSheet' = fioSheet]_vars

\* the first invocation on an empty sheet got no response: the sheet is
\* still empty
C35_Witness ==
  /\ fioRuns = 1
  /\ transactionsData.kind = "null"
  /\ fioSheet = [exists |-> TRUE, rows |-> <<>>]

\* a later invocation without a transaction list, on a log with rows
C35_WitnessLaterRun ==
  /\ fioRuns = 2
  /\ transactionsData.kind = "empty"
  /\ Len(fioSheet.rows) > 2

\* ----------------------------------------------------- claims on modulo97
\* the digit string read as a non-negative integer
RECURSIVE ValueOf(_)
ValueOf(str0) ==
  IF str0 = <<>> THEN 0
  ELSE ValueOf(SubSeq(str0, 1, Len(str0) - 1)) * 10 + parseInt(str0[Len(str0)])

\* C36: after every digit the remainder of modulo97 is the value of the
\* digits read so far modulo 97 and so stays below 97; at the end it is what
\* modulo97 returns, and the check digits 98 - remainder lie between 2 and 98.
C36_RunningRemainder ==
  /\ mod97Rem = ValueOf(SubSeq(mod97Str, 1, mod97Pos)) % 97
  /\ mod97Rem \in 0 .. 96
  /\ mod97Pos = Len(mod97Str) =>
       /\ modulo97(mod97Str) = mod97Rem
       /\ modulo97(mod97Str) = ValueOf(mod97Str) % 97
       /\ 98 - (modulo97(mod97Str) % 97) \in 2 .. 98

\* 970 is ten times 97: the remainder came to 0 and the check digits to 98
C36_Witness ==
  /\ mod97Str = <<"9", "7", "0">>
  /\ mod97Pos = 3
  /\ mod97Rem = 0

\* 999 leaves 29
C36_WitnessLargest ==
  /\ mod97Str = <<"9", "9", "9">>
  /\ mod97Pos = 3
  /\ mod97Rem = 29

\* ------------------------------------------------- claims on the data mapping
SyntheticKeys == {"recipient", "conditionValue", "sentValue"}

ImageNames(specs) == {specs[n].imageName : n \in DOMAIN specs}

\* the synthetic keys hold the recipient, the condition value and the status
\* value of the row of the pair
SyntheticFromOwnRow ==
  LET row == mappingCall.data[mappingCall.index]
  IN /\ mappingResult["recipient"] = row[IndexOf(mappingCall.headers, RECIPIENT_COL)]
     /\ mappingResult["conditionValue"] = row[2]
     /\ mappingResult["sentValue"] = row[3]

\* C37, as stated: the data mapping handed to the template fill maps every
\* header to the value of its column in the row of the pair, but for the
\* synthetic keys recipient, conditionValue and sentValue, which come first.
C37_HeadersOfOwnRow ==
  mappingResult # NoMappingResult =>
    /\ \A n \in DOMAIN mappingCall.headers :
         mappingCall.headers[n] \notin SyntheticKeys
           => mappingResult[mappingCall.headers[n]]
                = mappingCall.data[mappingCall.index][n]
    /\ SyntheticFromOwnRow

\* C37, amended: the data mapping maps every header that is neither a
\* synthetic key nor the image name of a QR code of the topic to the value of
\* its column in the row of the pair; an image name maps to its img tag, also
\* when a header has that name; the synthetic keys come before both.
C37_HeadersUnlessImageName ==
  mappingResult # NoMappingResult =>
    /\ \A n \in DOMAIN mappingCall.headers :
         mappingCall.headers[n] \notin SyntheticKeys \cup ImageNames(mappingCall.specs)
           => mappingResult[mappingCall.headers[n]]
                = mappingCall.data[mappingCall.index][n]
    /\ \A name \in ImageNames(mappingCall.specs) \ SyntheticKeys :
         mappingResult[name] = ImgTag(name)
    /\ SyntheticFromOwnRow
    /\ DOMAIN mappingResult
         = {mappingCall.headers[n] : n \in DOMAIN mappingCall.headers}
             \cup ImageNames(mappingCall.specs) \cup SyntheticKeys

\* the pair of the second row, in a table with a column named recipient and
\* a column named as the QR image: the values are those of the second row,
\* the key recipient holds the address and the image name holds the img tag
C37_Witness ==
  /\ mappingResult # NoMappingResult
  /\ mappingCall.index = 2
  /\ mappingCall.headers = <<"Recipient", "Cond", "Sent", "recipient">>
  /\ mappingCall.specs = <<QrGood>>
  /\ mappingCall.data = << <<Str("a@x"), Num(1), Blank, Str("x")>>,
                           <<Str("b@x"), Num(2), Blank, Str("y")>> >>
  /\ mappingResult["Recipient"] = Str("b@x")
  /\ mappingResult["recipient"] = Str("b@x")
  /\ mappingResult["Cond"] = Num(2)
  /\ mappingResult["qr1"] = ImgTag("qr1")

====
